---------------------------- MODULE Spec2Model ----------------------------
(***************************************************************************)
(* Process and thread control plane of lib/wasi/src/state/thread.rs:       *)
(* WasiControlPlane (pid reservation, process map), WasiProcess (thread    *)
(* table, exit latch, wait counter, signal fan-out), WasiThread (exit      *)
(* latch, pending signals) and WasiThreadHandle (drop of the last clone).  *)
(*                                                                         *)
(* The wake channels are tokio broadcast channels of capacity 1.  A        *)
(* channel is modelled by its live receivers and, for each, the number of  *)
(* messages sent since it subscribed, counted up to capacity + 1.  recv()  *)
(* on a receiver is pending at 0, yields Ok up to the capacity and yields  *)
(* Err(Lagged) beyond it (the single slot was overwritten).  A send with   *)
(* no receiver is refused and leaves nothing behind.                       *)
(***************************************************************************)
EXTENDS Integers, Sequences, FiniteSets, TLC

(***************************************************************************)
(* Bounds of the model.                                                    *)
(***************************************************************************)
\* The pid seed is an AtomicU32; the model wraps it at PidSpace instead of 2^32.
PidSpace == 3
\* Where the operations run lock by lock, from a plane with two processes
\* and a reserved pid, the seed wraps at LockPidSpace: an id is left for each
\* of two concurrent calls of reserve_pid or new_process.
LockPidSpace == 5
\* Host threads calling reserve_pid / new_process concurrently.
NumCallers == 2
\* new_process calls over a run.
MaxProcs == 2
\* new_thread calls per process (caps the thread seed).
MaxThreads == 2
\* Clones of one thread handle alive at a time.
MaxRefs == 2
\* Tasks calling join.
NumJoiners == 1
\* Host threads calling signal_process concurrently.
NumSignallers == 2
\* Consumers draining the signals of threads.
NumDrainers == 1
\* Longest memory stack passed to add_snapshot.
MaxStackLen == 2
\* Host threads calling the non-suspending operations concurrently.
NumWorkers == 2
\* Host threads calling WasiProcess::terminate concurrently.
NumTerminators == 1

\* tokio::sync::broadcast::channel(1)
ChannelCapacity == 1

\* Option::None, for a kind, an exit code, a pid, a latch and a process.
None == "none"
NoCode == -1
NoPid == -1
NoLatch == <<-1, -1>>
NoProcess == [pid |-> -1, ppid |-> -1, serial |-> -1]

Pids == 0 .. (PidSpace - 1)
LockPids == 0 .. (LockPidSpace - 1)
Callers == 1 .. NumCallers
Joiners == 1 .. NumJoiners
Signallers == 1 .. NumSignallers
\* Receivers of a signal channel are numbered apart from the joiners.
Drainers == 1 .. NumDrainers
Workers == 1 .. NumWorkers
Terminators == 1 .. NumTerminators
\* Signal kinds used by the model.
Signals == {"SIGINT", "SIGTERM"}
NoSignal == "none"
\* The signal the concurrent signal_process callers send.
ProcessSignal == "SIGINT"
\* Result of pop_signals_or_subscribe before any call.
NoResult == [ok |-> FALSE, sigs |-> << >>]
\* Exit codes passed to terminate; a handle drop terminates with 0.
ExitCodes == {0, 7}

VARIABLES
    \* WasiControlPlane
    process_seed,   \* AtomicU32 seed
    reserved,       \* HashSet<WasiProcessId>
    processes,      \* HashMap<WasiProcessId, WasiProcess>
    \* one record per host thread inside reserve_pid / new_process
    rpc,            \* position in the code
    rkind,          \* "reserve_pid" or "new_process"
    rpid,           \* the local `pid`
    rret,           \* the local `ret` of new_process
    \* allocation and bookkeeping
    next_serial,    \* identity of the next WasiProcess constructed (its Arcs)
    kept,           \* pid -> number of reserve_pid results still held by callers
    created,        \* every WasiProcess new_process has returned
    \* WasiProcess, by pid
    inner,          \* WasiProcessInner: threads, thread_count, thread_seed
    waiting,        \* AtomicU32: tasks inside join / join_children / join_any_child
    children,       \* Vec<WasiProcessId>
    \* exit latches (Option<ExitCode>, broadcast Sender), by latch id
    finished,
    \* WasiThread and WasiThreadHandle, by <<pid, tid>>
    ctrls,          \* every WasiThread built by new_thread
    signals,        \* (Vec<Signal>, broadcast Sender)
    id_refs,        \* strong count of the handle's Arc<WasiThreadId>
    dropping,       \* handles inside drop() that found the Arc shared
    \* one record per task inside WasiThread::join / WasiProcess::join
    jpc, jlatch, jproc, jres,
    \* one record per host thread inside WasiProcess::signal_process
    spc, sproc, ssig,
    stodo,          \* what is left of the call: loads, lookups, signals, guards
    \* one record per consumer of pop_signals_or_subscribe
    dpc,            \* "idle", or "subscribed" while it holds the Receiver
    dthread,        \* the thread whose Receiver it holds
    dres,           \* the last result: Ok(signals) or Err(receiver)
    \* bookkeeping
    sig_since,      \* by thread: the signals passed to signal() since the last drain
    \* WasiThread::stack, by thread: the list of segments from the head, each
    \* segment's next being the following element
    stack,
    \* bookkeeping of the last add_snapshot call: its thread and hash, and the
    \* segment at which its memory stack stopped matching the stored one
    snap_call,
    \* one record per task calling join_children or join_any_child
    wpc,            \* "idle", "entered", "lookup", "panic", "waiting", "returning",
                    \* "looping", "cancelling", "done", "cancelled" or "panicked"
    wkind,          \* the operation called
    wproc,          \* the process it was called on
    wentry,         \* bookkeeping: the children list read at entry
    wlist,          \* the local copy of the children list not looked up yet
    wpoll,          \* the future that the task polls, 0 between two polls
    wchild,         \* the futures of the current round, in the order of waits
    wres,           \* the result returned
    \* one record per host thread, for the locks it takes
    lcall,          \* the operation it is in, with its arguments and locals
    lprog,          \* what is left of the operation: lock, unlock and body steps
    lheld,          \* the guards it holds, in the order it took them
    \* one record per host thread inside WasiProcess::terminate
    tcall           \* the process, the exit code and the threads still to terminate

planeVars == <<process_seed, reserved, processes>>
callerVars == <<rpc, rkind, rpid, rret>>
ghostPidVars == <<next_serial, kept, created>>
pidVars == <<process_seed, reserved, processes, rpc, rkind, rpid, rret,
             next_serial, kept, created>>
procVars == <<inner, waiting, children, finished>>
threadVars == <<ctrls, signals, id_refs, dropping, sig_since>>
joinVars == <<jpc, jlatch, jproc, jres>>
sigVars == <<spc, sproc, ssig, stodo, dpc, dthread, dres>>
snapVars == <<stack, snap_call>>
waitVars == <<wpc, wkind, wproc, wentry, wlist, wpoll, wchild, wres>>
lockVars == <<lcall, lprog, lheld>>
termVars == <<tcall>>
vars == <<pidVars, procVars, threadVars, joinVars, sigVars, snapVars, waitVars, lockVars,
          termVars>>

(***************************************************************************)
(* Broadcast wake channels (tokio::sync::broadcast, capacity 1)            *)
(***************************************************************************)
\* channel(1).0: the sender alone; the receiver channel() returns is dropped.
NewChannel == << >>

\* Mutant of Send: nothing is sent.
SendNothing(ch) == ch

\* Sender::send: every live receiver has one more message behind it.
Send(ch) ==
    [r \in DOMAIN ch |-> IF ch[r] <= ChannelCapacity THEN ch[r] + 1 ELSE ch[r]]

\* Sender::subscribe by receiver r, which starts at the tail.
Subscribe(ch, r) == [x \in DOMAIN ch \cup {r} |-> IF x = r THEN 0 ELSE ch[x]]

\* Drop of receiver r.
DropReceiver(ch, r) == [x \in DOMAIN ch \ {r} |-> ch[x]]

\* Receiver::recv for receiver r.
RecvState(ch, r) ==
    IF ch[r] = 0 THEN "pending"
    ELSE IF ch[r] <= ChannelCapacity THEN "ok"
    ELSE "lagged"

(***************************************************************************)
(* Exit latches                                                            *)
(***************************************************************************)
\* Arc::new(Mutex::new((None, channel(1).0)))
NewLatch == [code |-> NoCode, chan |-> NewChannel]

\* The latch of process pid (WasiProcess::finished).
ProcLatch(pid) == <<pid, -1>>

\* Mutant of ThreadLatch: every thread shares the latch of its process.
ThreadLatchAlwaysShared(pid, id, is_main) == ProcLatch(pid)

\* The latch new_thread gives the thread: the process's for the main thread,
\* a fresh one otherwise.
ThreadLatch(pid, id, is_main) == IF is_main THEN ProcLatch(pid) ELSE <<pid, id>>

\* Mutant of TerminateLatch: the code is written also when one is set.
TerminateLatchOverwrite(l, exit_code) == [code |-> exit_code, chan |-> Send(l.chan)]

\* WasiThread::terminate on the locked latch: set the code if unset, then send.
TerminateLatch(l, exit_code) ==
    [code |-> IF l.code = NoCode THEN exit_code ELSE l.code,
     chan |-> Send(l.chan)]

\* terminate(exit_code) on each latch of the set ls.
TerminateAll(store, ls, exit_code) ==
    [x \in DOMAIN store |-> IF x \in ls THEN TerminateLatch(store[x], exit_code) ELSE store[x]]

\* HashMap::insert: adds the entry or replaces the one under the same key.
MapInsert(m, key, val) == [x \in DOMAIN m \cup {key} |-> IF x = key THEN val ELSE m[x]]

\* HashMap::remove.
MapRemove(m, key) == [x \in DOMAIN m \ {key} |-> m[x]]

\* WasiProcessInner as new_process builds it.
NewInner == [threads |-> << >>, thread_count |-> 0, thread_seed |-> 0]

\* ThreadStack::default(): empty images, no snapshot, no next.
NewSegment(memory_stack, memory_stack_corrected) ==
    [memory_stack |-> memory_stack,
     memory_stack_corrected |-> memory_stack_corrected,
     snapshots |-> << >>]

\* The stack of a new thread: the default head alone.
NewThreadStack == <<NewSegment(<< >>, << >>)>>

\* No result of join_children or join_any_child yet; the results are
\* Option<ExitCode> for the first, Result<Option<(pid, code)>, Errno> for the
\* second.
NoWaitResult == [ok |-> TRUE, pid |-> NoPid, code |-> NoCode]

\* Err(Errno::Child)
NoChildren == [ok |-> FALSE, pid |-> NoPid, code |-> NoCode]

\* A host thread that is in no operation.
NoLockCall ==
    [name |-> None, pid |-> NoPid, tid |-> -1, other |-> NoLatch, serial |-> -1, copy |-> << >>]

\* The orders in which a HashMap may yield the keys of the set s.
Orders(s) ==
    {o \in [1 .. Cardinality(s) -> s] : \A i, j \in DOMAIN o : o[i] = o[j] => i = j}

\* No call of WasiProcess::terminate in progress.
NoTerminate == [pid |-> NoPid, code |-> NoCode, left |-> {}]

\* What a call of signal_process has left to do: a step op on process pid or
\* on its thread tid.
Todo(op, pid, tid) == [op |-> op, pid |-> pid, tid |-> tid]

\* A host thread holds the read guard of inner of process p: it is in the
\* loop of terminate, or in the loop of signal_process over the threads.
InnerReadHeld(p) ==
    \/ \E t \in Terminators : tcall[t].pid = p
    \/ \E c \in Signallers : \E i \in DOMAIN stodo[c] : stodo[c][i] = Todo("end_inner", p, -1)

\* No host thread holds the mutex of latch l: finished.lock() returns.
LatchMutexFree(l) ==
    \A w \in Workers : \A i \in DOMAIN lheld[w] :
        lheld[w][i].lock # [kind |-> "finished", pid |-> l[1], tid |-> l[2]]

\* A host thread holds the read guard of children of process p: it is in the
\* loop of signal_process over the children.
ChildrenReadHeld(p) ==
    \E c \in Signallers : \E i \in DOMAIN stodo[c] : stodo[c][i] = Todo("end_children", p, -1)

\* No add_snapshot call yet.
NoCall == [thread |-> NoLatch, hash |-> 0, invalid_at |-> 0]

\* Option::None for the result of get_snapshot.
NoSnapshot == [found |-> FALSE, memory_stack |-> << >>, call_stack |-> << >>, store_data |-> << >>]

(***************************************************************************)
(* WasiControlPlane                                                        *)
(***************************************************************************)
\* Default for WasiControlPlane: seed 0, nothing reserved, no process.
PlaneInit ==
    /\ process_seed = 0
    /\ reserved = {}
    /\ processes = << >>
    /\ rpc = [c \in Callers |-> "idle"]
    /\ rkind = [c \in Callers |-> None]
    /\ rpid = [c \in Callers |-> 0]
    /\ rret = [c \in Callers |-> NoProcess]
    /\ next_serial = 0
    /\ kept = [p \in Pids |-> 0]
    /\ created = {}
    /\ inner = << >>
    /\ waiting = << >>
    /\ children = << >>
    /\ finished = << >>
    /\ ctrls = << >>
    /\ signals = << >>
    /\ id_refs = << >>
    /\ dropping = << >>
    /\ jpc = [j \in Joiners |-> "idle"]
    /\ jlatch = [j \in Joiners |-> NoLatch]
    /\ jproc = [j \in Joiners |-> NoPid]
    /\ jres = [j \in Joiners |-> NoCode]
    /\ spc = [c \in Signallers |-> "idle"]
    /\ sproc = [c \in Signallers |-> NoPid]
    /\ ssig = [c \in Signallers |-> NoSignal]
    /\ stodo = [c \in Signallers |-> << >>]
    /\ dpc = [d \in Drainers |-> "idle"]
    /\ dthread = [d \in Drainers |-> NoLatch]
    /\ dres = [d \in Drainers |-> NoResult]
    /\ sig_since = << >>
    /\ stack = << >>
    /\ snap_call = NoCall
    /\ wpc = [j \in Joiners |-> "idle"]
    /\ wkind = [j \in Joiners |-> None]
    /\ wproc = [j \in Joiners |-> NoPid]
    /\ wentry = [j \in Joiners |-> << >>]
    /\ wlist = [j \in Joiners |-> << >>]
    /\ wpoll = [j \in Joiners |-> 0]
    /\ wchild = [j \in Joiners |-> << >>]
    /\ wres = [j \in Joiners |-> NoWaitResult]
    /\ lcall = [w \in Workers |-> NoLockCall]
    /\ lprog = [w \in Workers |-> << >>]
    /\ lheld = [w \in Workers |-> << >>]
    /\ tcall = [t \in Terminators |-> NoTerminate]

\* Mutant of IsReserved: the reserved set is not consulted.
IsReservedSkipped(pid) == FALSE

\* guard.contains(&pid) on the reserved set.
IsReserved(pid) == pid \in reserved

\* Mutant of IsLive: the process map is not consulted.
IsLiveSkipped(pid) == FALSE

\* guard.contains_key(&pid) on the process map.
IsLive(pid) == pid \in DOMAIN processes

\* get_process: the map's entry for pid, cloned, or none.
get_process(pid) == IF pid \in DOMAIN processes THEN processes[pid] ELSE NoProcess

\* A host thread enters reserve_pid.
CallReservePid(c) ==
    /\ rpc[c] = "idle"
    /\ rpc' = [rpc EXCEPT ![c] = "fetch"]
    /\ rkind' = [rkind EXCEPT ![c] = "reserve_pid"]
    /\ UNCHANGED <<planeVars, rpid, rret, ghostPidVars, procVars, threadVars, joinVars, sigVars, snapVars, waitVars, lockVars, termVars>>

\* A host thread enters new_process, which starts with reserve_pid.
CallNewProcess(c) ==
    /\ rpc[c] = "idle"
    /\ next_serial + Cardinality({d \in Callers : rkind[d] = "new_process"
                                      /\ rpc[d] \in {"fetch", "reserve", "check", "unreserve", "insert"}})
         < MaxProcs
    /\ rpc' = [rpc EXCEPT ![c] = "fetch"]
    /\ rkind' = [rkind EXCEPT ![c] = "new_process"]
    /\ UNCHANGED <<planeVars, rpid, rret, ghostPidVars, procVars, threadVars, joinVars, sigVars, snapVars, waitVars, lockVars, termVars>>

\* pid = process_seed.fetch_add(1), wrapping.
FetchAdd(c) ==
    /\ rpc[c] = "fetch"
    /\ rpid' = [rpid EXCEPT ![c] = process_seed]
    /\ process_seed' = (process_seed + 1) % PidSpace
    /\ rpc' = [rpc EXCEPT ![c] = "reserve"]
    /\ UNCHANGED <<reserved, processes, rkind, rret, ghostPidVars, procVars, threadVars, joinVars, sigVars, snapVars, waitVars, lockVars, termVars>>

\* Under the reserved mutex: continue when the pid is reserved, else insert it.
ReserveStep(c) ==
    /\ rpc[c] = "reserve"
    /\ IF IsReserved(rpid[c])
       THEN /\ rpc' = [rpc EXCEPT ![c] = "fetch"]
            /\ UNCHANGED reserved
       ELSE /\ reserved' = reserved \cup {rpid[c]}
            /\ rpc' = [rpc EXCEPT ![c] = "check"]
    /\ UNCHANGED <<process_seed, processes, rkind, rpid, rret, ghostPidVars, procVars, threadVars, joinVars, sigVars, snapVars, waitVars, lockVars, termVars>>

\* Under the process-map read lock: break (return the pid) when it is not live.
CheckLive(c) ==
    /\ rpc[c] = "check"
    /\ IF ~IsLive(rpid[c])
       THEN IF rkind[c] = "reserve_pid"
            THEN /\ rpc' = [rpc EXCEPT ![c] = "idle"]
                 /\ kept' = [kept EXCEPT ![rpid[c]] = @ + 1]
                 /\ rkind' = [rkind EXCEPT ![c] = None]
                 /\ rpid' = [rpid EXCEPT ![c] = 0]
            ELSE /\ rpc' = [rpc EXCEPT ![c] = "insert"]
                 /\ UNCHANGED <<kept, rkind, rpid>>
       ELSE /\ rpc' = [rpc EXCEPT ![c] = "unreserve"]
            /\ UNCHANGED <<kept, rkind, rpid>>
    /\ UNCHANGED <<planeVars, rret, next_serial, created, procVars, threadVars, joinVars, sigVars, snapVars, waitVars, lockVars, termVars>>

\* The pid is live: take it out of the reserved set and try the next one.
Unreserve(c) ==
    /\ rpc[c] = "unreserve"
    /\ reserved' = reserved \ {rpid[c]}
    /\ rpc' = [rpc EXCEPT ![c] = "fetch"]
    /\ UNCHANGED <<process_seed, processes, rkind, rpid, rret, ghostPidVars, procVars, threadVars, joinVars, sigVars, snapVars, waitVars, lockVars, termVars>>

\* The WasiProcess new_process builds: ppid 0 and fresh shared state.
NewWasiProcess(pid, serial) == [pid |-> pid, ppid |-> 0, serial |-> serial]

\* new_process: build the process and insert it under the process-map write lock.
InsertProcess(c) ==
    /\ rpc[c] = "insert"
    /\ LET ret == NewWasiProcess(rpid[c], next_serial)
       IN /\ rret' = [rret EXCEPT ![c] = ret]
          /\ processes' = MapInsert(processes, rpid[c], ret)
    /\ inner' = MapInsert(inner, rpid[c], NewInner)
    /\ waiting' = MapInsert(waiting, rpid[c], 0)
    /\ children' = MapInsert(children, rpid[c], << >>)
    /\ finished' = MapInsert(finished, ProcLatch(rpid[c]), NewLatch)
    /\ next_serial' = next_serial + 1
    /\ rpc' = [rpc EXCEPT ![c] = "release"]
    /\ UNCHANGED <<process_seed, reserved, rkind, rpid, kept, created, threadVars, joinVars, sigVars, snapVars, waitVars, lockVars, termVars>>

\* new_process: remove the reservation and return the process.
ReleaseReservation(c) ==
    /\ rpc[c] = "release"
    /\ reserved' = reserved \ {rpid[c]}
    /\ created' = created \cup {rret[c]}
    /\ rpc' = [rpc EXCEPT ![c] = "idle"]
    /\ rkind' = [rkind EXCEPT ![c] = None]
    /\ rpid' = [rpid EXCEPT ![c] = 0]
    /\ rret' = [rret EXCEPT ![c] = NoProcess]
    /\ UNCHANGED <<process_seed, processes, next_serial, kept, procVars, threadVars, joinVars, sigVars, snapVars, waitVars, lockVars, termVars>>

PidNext ==
    \E c \in Callers :
        \/ CallReservePid(c)
        \/ CallNewProcess(c)
        \/ FetchAdd(c)
        \/ ReserveStep(c)
        \/ CheckLive(c)
        \/ Unreserve(c)
        \/ InsertProcess(c)
        \/ ReleaseReservation(c)

SpecPid == PlaneInit /\ [][PidNext]_vars

(***************************************************************************)
(* Properties of the control plane (checked under SpecPid)                 *)
(***************************************************************************)
\* Callers that hold pid as the result of reserve_pid: plain reserve_pid
\* callers keep it, new_process holds it until it releases the reservation.
Holding(pid) ==
    kept[pid] + Cardinality({c \in Callers : /\ rpc[c] \in {"insert", "release"}
                                             /\ rpid[c] = pid})

\* C1: concurrent reserve_pid callers receive pairwise different ids: no id
\* is held by two callers at once, in any interleaving of their steps.
C1_DistinctReservedPids == \A pid \in Pids : Holding(pid) <= 1

\* C1 witness: two callers are inside new_process at once, each with the id
\* reserve_pid returned to it, while a third id is kept by a reserve_pid caller.
C1_Witness ==
    \E c, d \in Callers :
        /\ c # d
        /\ rpc[c] = "insert"
        /\ rpc[d] = "insert"
        /\ \E pid \in Pids : kept[pid] = 1

\* C2: an id returned by reserve_pid is not a key of the process map and is
\* reserved for that caller alone (also after the seed wrapped onto ids in
\* use); new_process never replaces a process-map entry, and each process it
\* returns is the one get_process yields for its pid.
C2_ReservedPidIsFree ==
    /\ \A pid \in Pids : kept[pid] > 0 => pid \notin DOMAIN processes /\ pid \in reserved
    /\ \A c \in Callers :
          rpc[c] = "insert" =>
              /\ rpid[c] \notin DOMAIN processes
              /\ rpid[c] \in reserved
              /\ Holding(rpid[c]) = 1
    /\ Cardinality(DOMAIN processes) = next_serial
    /\ \A c \in Callers : rpc[c] = "release" => get_process(rpid[c]) = rret[c]
    /\ \A r \in created : get_process(r.pid) = r

\* C2 witness: the wrapped seed handed a caller an id that is live, after
\* new_process had returned two processes.
C2_Witness ==
    /\ Cardinality(created) = 2
    /\ \E c \in Callers : rpc[c] = "unreserve"


(***************************************************************************)
(* WasiProcess and WasiThread: threads, handles, exit latches, join        *)
(***************************************************************************)
\* The state after WasiControlPlane::default().new_process(): one process,
\* pid 0, with no thread.
OneProcessInit ==
    /\ process_seed = 1
    /\ reserved = {}
    /\ processes = (0 :> NewWasiProcess(0, 0))
    /\ rpc = [c \in Callers |-> "idle"]
    /\ rkind = [c \in Callers |-> None]
    /\ rpid = [c \in Callers |-> 0]
    /\ rret = [c \in Callers |-> NoProcess]
    /\ next_serial = 1
    /\ kept = [p \in Pids |-> 0]
    /\ created = {NewWasiProcess(0, 0)}
    /\ inner = (0 :> NewInner)
    /\ waiting = (0 :> 0)
    /\ children = (0 :> << >>)
    /\ finished = (ProcLatch(0) :> NewLatch)
    /\ ctrls = << >>
    /\ signals = << >>
    /\ id_refs = << >>
    /\ dropping = << >>
    /\ jpc = [j \in Joiners |-> "idle"]
    /\ jlatch = [j \in Joiners |-> NoLatch]
    /\ jproc = [j \in Joiners |-> NoPid]
    /\ jres = [j \in Joiners |-> NoCode]
    /\ spc = [c \in Signallers |-> "idle"]
    /\ sproc = [c \in Signallers |-> NoPid]
    /\ ssig = [c \in Signallers |-> NoSignal]
    /\ stodo = [c \in Signallers |-> << >>]
    /\ dpc = [d \in Drainers |-> "idle"]
    /\ dthread = [d \in Drainers |-> NoLatch]
    /\ dres = [d \in Drainers |-> NoResult]
    /\ sig_since = << >>
    /\ stack = << >>
    /\ snap_call = NoCall
    /\ wpc = [j \in Joiners |-> "idle"]
    /\ wkind = [j \in Joiners |-> None]
    /\ wproc = [j \in Joiners |-> NoPid]
    /\ wentry = [j \in Joiners |-> << >>]
    /\ wlist = [j \in Joiners |-> << >>]
    /\ wpoll = [j \in Joiners |-> 0]
    /\ wchild = [j \in Joiners |-> << >>]
    /\ wres = [j \in Joiners |-> NoWaitResult]
    /\ lcall = [w \in Workers |-> NoLockCall]
    /\ lprog = [w \in Workers |-> << >>]
    /\ lheld = [w \in Workers |-> << >>]
    /\ tcall = [t \in Terminators |-> NoTerminate]

\* The signal queue new_thread gives a thread: no signal, a fresh channel.
NewSignals == [list |-> << >>, chan |-> NewChannel]

\* new_thread flags the thread main iff thread_count <= 0.
IsMainAtCreation(in) == in.thread_count <= 0

\* Mutant of RegisterThread: the count is not incremented.
RegisterThreadNoCount(in, id, ctrl) == [in EXCEPT !.threads = MapInsert(@, id, ctrl)]

\* new_thread: threads.insert(id, ctrl); thread_count += 1.
RegisterThread(in, id, ctrl) ==
    [in EXCEPT !.threads = MapInsert(@, id, ctrl), !.thread_count = @ + 1]

\* WasiProcess::new_thread, under the write lock of inner.
new_thread(p) ==
    /\ inner[p].thread_seed < MaxThreads
    /\ ~InnerReadHeld(p)
    /\ LET id == inner[p].thread_seed
           is_main == IsMainAtCreation(inner[p])
           l == ThreadLatch(p, id, is_main)
           ctrl == [pid |-> p, id |-> id, is_main |-> is_main, finished |-> l]
           k == <<p, id>>
       IN /\ finished' = IF l \in DOMAIN finished THEN finished ELSE MapInsert(finished, l, NewLatch)
          /\ inner' = [inner EXCEPT ![p] =
                          RegisterThread([@ EXCEPT !.thread_seed = id + 1], id, ctrl)]
          /\ ctrls' = MapInsert(ctrls, k, ctrl)
          /\ signals' = MapInsert(signals, k, NewSignals)
          /\ id_refs' = MapInsert(id_refs, k, 1)
          /\ dropping' = MapInsert(dropping, k, 0)
          /\ sig_since' = MapInsert(sig_since, k, {})
          /\ stack' = MapInsert(stack, k, NewThreadStack)
    /\ UNCHANGED <<pidVars, waiting, children, joinVars, sigVars, snap_call, waitVars, lockVars, termVars>>

\* Option::None for a WasiThread.
NoThread == [pid |-> -1, id |-> -1, is_main |-> FALSE, finished |-> NoLatch]

\* WasiProcess::get_thread.
get_thread(p, tid) ==
    IF tid \in DOMAIN inner[p].threads THEN inner[p].threads[tid] ELSE NoThread

\* WasiProcess::active_threads.
active_threads(p) == inner[p].thread_count

\* WasiThread::try_join on a thread, WasiProcess::try_join on a process.
thread_try_join(k) == finished[ctrls[k].finished].code
process_try_join(p) == finished[ProcLatch(p)].code

\* Handles of thread k that are alive and not inside drop().
LiveHandles(k) == id_refs[k] - dropping[k]

\* #[derive(Clone)] on WasiThreadHandle: one more owner of the Arc id.
CloneHandle(k) ==
    /\ LiveHandles(k) > 0
    /\ id_refs[k] < MaxRefs
    /\ id_refs' = [id_refs EXCEPT ![k] = @ + 1]
    /\ UNCHANGED <<pidVars, procVars, ctrls, signals, sig_since, dropping, joinVars, sigVars, snapVars, waitVars, lockVars, termVars>>

\* Arc::get_mut(&mut self.id) is Some iff this handle is the Arc's only owner.
IsUnique(k) == id_refs[k] = 1

\* Mutant of UnregisterThread: the count is not decremented.
UnregisterThreadNoCount(in, id) == [in EXCEPT !.threads = MapRemove(@, id)]

\* Drop of the last handle: threads.remove(id); thread_count -= 1.
UnregisterThread(in, id) ==
    [in EXCEPT !.threads = MapRemove(@, id), !.thread_count = @ - 1]

\* Drop for WasiThreadHandle, the body of drop(): the unique handle removes the
\* thread under the write lock, terminates it with 0 and releases the Arc; a
\* handle that finds the Arc shared does nothing and releases its share later.
DropCheck(k) ==
    /\ LiveHandles(k) > 0
    /\ IsUnique(k) => ~InnerReadHeld(k[1])
    /\ IF IsUnique(k)
       THEN LET p == k[1]
                id == k[2]
            IN /\ finished' = IF id \in DOMAIN inner[p].threads
                              THEN TerminateAll(finished, {inner[p].threads[id].finished}, 0)
                              ELSE finished
               /\ inner' = [inner EXCEPT ![p] = UnregisterThread(@, id)]
               /\ id_refs' = [id_refs EXCEPT ![k] = 0]
               /\ UNCHANGED dropping
       ELSE /\ dropping' = [dropping EXCEPT ![k] = @ + 1]
            /\ UNCHANGED <<inner, finished, id_refs>>
    /\ UNCHANGED <<pidVars, waiting, children, ctrls, signals, sig_since, joinVars, sigVars, snapVars, waitVars, lockVars, termVars>>

\* The handle's fields are dropped after drop() returned: the Arc loses an owner.
DropRelease(k) ==
    /\ dropping[k] > 0
    /\ id_refs' = [id_refs EXCEPT ![k] = @ - 1]
    /\ dropping' = [dropping EXCEPT ![k] = @ - 1]
    /\ UNCHANGED <<pidVars, procVars, ctrls, signals, sig_since, joinVars, sigVars, snapVars, waitVars, lockVars, termVars>>

\* WasiThread::terminate(exit_code), through a handle or a clone of the thread.
thread_terminate(k, exit_code) ==
    /\ finished' = TerminateAll(finished, {ctrls[k].finished}, exit_code)
    /\ UNCHANGED <<pidVars, inner, waiting, children, threadVars, joinVars, sigVars, snapVars, waitVars, lockVars, termVars>>

\* The latches of the threads registered in process p.
RegisteredLatches(p) == {inner[p].threads[t].finished : t \in DOMAIN inner[p].threads}

\* The call of WasiProcess::terminate after terminate on thread tid: the read
\* guard of inner is dropped after the last thread.
TerminateGoesOn(p, exit_code, left) ==
    IF left = {} THEN NoTerminate ELSE [pid |-> p, code |-> exit_code, left |-> left]

\* WasiProcess::terminate(exit_code) by host thread t, up to the end of
\* terminate on the first thread the table yields: the read lock of inner,
\* then the thread's latch under its own mutex. With no thread it returns.
process_terminate(t, p, exit_code) ==
    /\ tcall[t] = NoTerminate
    /\ IF DOMAIN inner[p].threads = {}
       THEN UNCHANGED <<finished, tcall>>
       ELSE \E tid \in DOMAIN inner[p].threads :
               /\ finished' = TerminateAll(finished, {inner[p].threads[tid].finished}, exit_code)
               /\ tcall' = [tcall EXCEPT ![t] =
                               TerminateGoesOn(p, exit_code, DOMAIN inner[p].threads \ {tid})]
    /\ UNCHANGED <<pidVars, inner, waiting, children, threadVars, joinVars, sigVars, snapVars, waitVars, lockVars>>

\* The loop of WasiProcess::terminate goes on: terminate on the next thread,
\* under the mutex of its latch.
ProcessTerminateNext(t) ==
    /\ tcall[t] # NoTerminate
    /\ LET p == tcall[t].pid
       IN \E tid \in tcall[t].left :
             /\ finished' = TerminateAll(finished, {inner[p].threads[tid].finished},
                                         tcall[t].code)
             /\ tcall' = [tcall EXCEPT ![t] =
                             TerminateGoesOn(p, tcall[t].code, tcall[t].left \ {tid})]
    /\ UNCHANGED <<pidVars, inner, waiting, children, threadVars, joinVars, sigVars, snapVars, waitVars, lockVars>>

(***************************************************************************)
(* join                                                                    *)
(***************************************************************************)
\* A task calls WasiThread::join on thread k.
ThreadJoinStart(j, k) ==
    /\ jpc[j] = "idle"
    /\ jpc' = [jpc EXCEPT ![j] = "check"]
    /\ jlatch' = [jlatch EXCEPT ![j] = ctrls[k].finished]
    /\ UNCHANGED <<pidVars, procVars, threadVars, jproc, jres, sigVars, snapVars, waitVars, lockVars, termVars>>

\* Mutant of WaitGuardReleased: Drop for WasiProcessWait leaves the counter.
WaitGuardLeaked(w, p) == w

\* Drop for WasiProcessWait of process p: waiting.fetch_sub(1).
WaitGuardReleased(w, p) == [w EXCEPT ![p] = @ - 1]

\* A task calls WasiProcess::join on process p: WasiProcessWait::new.
ProcessJoinStart(j, p) ==
    /\ jpc[j] = "idle"
    /\ jpc' = [jpc EXCEPT ![j] = "check"]
    /\ jlatch' = [jlatch EXCEPT ![j] = ProcLatch(p)]
    /\ jproc' = [jproc EXCEPT ![j] = p]
    /\ waiting' = [waiting EXCEPT ![p] = @ + 1]
    /\ UNCHANGED <<pidVars, inner, children, finished, threadVars, jres, sigVars, snapVars, waitVars, lockVars, termVars>>

\* Drop for WasiProcessWait when the join of a process ends; nothing for a thread.
WaitGuardDropped(j) ==
    IF jproc[j] = NoPid THEN waiting ELSE WaitGuardReleased(waiting, jproc[j])

\* Top of the join loop, under the latch mutex: return the code when it is
\* set, else subscribe to the wake channel.
JoinCheck(j) ==
    /\ jpc[j] = "check"
    /\ LatchMutexFree(jlatch[j])
    /\ LET l == finished[jlatch[j]]
       IN IF l.code # NoCode
          THEN /\ jres' = [jres EXCEPT ![j] = l.code]
               /\ jpc' = [jpc EXCEPT ![j] = "done"]
               /\ waiting' = WaitGuardDropped(j)
               /\ UNCHANGED finished
          ELSE /\ finished' = [finished EXCEPT ![jlatch[j]].chan = Subscribe(@, j)]
               /\ jpc' = [jpc EXCEPT ![j] = "recv"]
               /\ UNCHANGED <<waiting, jres>>
    /\ UNCHANGED <<pidVars, inner, children, threadVars, jlatch, jproc, sigVars, snapVars, waitVars, lockVars, termVars>>

\* rx.recv().await completes: Ok goes round the loop, an error returns None;
\* the receiver is dropped either way.
JoinRecv(j) ==
    /\ jpc[j] = "recv"
    /\ LET st == RecvState(finished[jlatch[j]].chan, j)
       IN /\ st # "pending"
          /\ finished' = [finished EXCEPT ![jlatch[j]].chan = DropReceiver(@, j)]
          /\ IF st = "ok"
             THEN /\ jpc' = [jpc EXCEPT ![j] = "check"]
                  /\ UNCHANGED <<waiting, jres>>
             ELSE /\ jres' = [jres EXCEPT ![j] = NoCode]
                  /\ jpc' = [jpc EXCEPT ![j] = "done"]
                  /\ waiting' = WaitGuardDropped(j)
    /\ UNCHANGED <<pidVars, inner, children, threadVars, jlatch, jproc, sigVars, snapVars, waitVars, lockVars, termVars>>

(***************************************************************************)
(* Signals                                                                 *)
(***************************************************************************)
Range(seq) == {seq[i] : i \in DOMAIN seq}

\* Mutant of Signal: the signal is pushed without the contains test.
SignalAlwaysPush(sg, s) == [list |-> Append(sg.list, s), chan |-> Send(sg.chan)]

\* WasiThread::signal, under the signals mutex: push unless already pending,
\* then send on the wake channel (an error of send is ignored).
Signal(sg, s) ==
    [list |-> IF s \in Range(sg.list) THEN sg.list ELSE Append(sg.list, s),
     chan |-> Send(sg.chan)]

\* Mutant of SignalAll: nobody is signalled.
SignalNobody(store, ks, s) == store

\* signal(s) on every thread of the set ks.
SignalAll(store, ks, s) ==
    [k \in DOMAIN store |-> IF k \in ks THEN Signal(store[k], s) ELSE store[k]]

\* Bookkeeping of SignalAll.
NoteSignalled(since, ks, s) ==
    [k \in DOMAIN since |-> IF k \in ks THEN since[k] \cup {s} ELSE since[k]]

\* The threads registered in process p, as keys of the thread state.
RegisteredThreads(p) == {<<p, t>> : t \in DOMAIN inner[p].threads}

\* WasiThread::signal called on thread k by a holder of the WasiThread.
thread_signal(k, s) ==
    /\ signals' = SignalAll(signals, {k}, s)
    /\ sig_since' = NoteSignalled(sig_since, {k}, s)
    /\ UNCHANGED <<pidVars, procVars, ctrls, id_refs, dropping, joinVars, sigVars, snapVars, waitVars, lockVars, termVars>>

\* WasiProcess::signal_thread, under the read lock of inner: the signal is
\* lost when the thread is not registered.
signal_thread(p, tid, s) ==
    /\ LET ks == IF tid \in DOMAIN inner[p].threads THEN {<<p, tid>>} ELSE {}
       IN /\ signals' = SignalAll(signals, ks, s)
          /\ sig_since' = NoteSignalled(sig_since, ks, s)
    /\ UNCHANGED <<pidVars, procVars, ctrls, id_refs, dropping, joinVars, sigVars, snapVars, waitVars, lockVars, termVars>>

\* The guards whose scope ends before the next step of a call are dropped.
RECURSIVE DropGuards(_)
DropGuards(todo) ==
    IF todo # << >> /\ Head(todo).op \in {"end_inner", "end_children"}
    THEN DropGuards(Tail(todo))
    ELSE todo

\* The call of host thread c goes on with the steps todo, and returns when
\* only ends of scopes are left.
SignalProcessGoesOn(c, todo) ==
    LET rest == DropGuards(todo)
    IN /\ stodo' = [stodo EXCEPT ![c] = rest]
       /\ spc' = [spc EXCEPT ![c] = IF rest = << >> THEN "idle" ELSE "inside"]
       /\ sproc' = [sproc EXCEPT ![c] = IF rest = << >> THEN NoPid ELSE @]
       /\ ssig' = [ssig EXCEPT ![c] = IF rest = << >> THEN NoSignal ELSE @]

\* self.waiting.load(..) > 0 on process p: the children come next when it
\* holds, else the threads.
LoadWaiting(p) == IF waiting[p] > 0 THEN Todo("children", p, -1) ELSE Todo("threads", p, -1)

\* WasiProcess::signal_process on process p, first step: the load of the
\* wait counter.
SignalProcessLoad(c, p, s) ==
    /\ spc[c] = "idle"
    /\ spc' = [spc EXCEPT ![c] = "inside"]
    /\ sproc' = [sproc EXCEPT ![c] = p]
    /\ ssig' = [ssig EXCEPT ![c] = s]
    /\ stodo' = [stodo EXCEPT ![c] = <<LoadWaiting(p)>>]
    /\ UNCHANGED <<pidVars, procVars, threadVars, joinVars, dpc, dthread, dres, snapVars, waitVars, lockVars, termVars>>

\* signal_process on a child, first step: the load of its wait counter.
SignalProcessNestedLoad(c) ==
    /\ stodo[c] # << >>
    /\ Head(stodo[c]).op = "load"
    /\ stodo' = [stodo EXCEPT ![c] = <<LoadWaiting(Head(stodo[c]).pid)>> \o Tail(stodo[c])]
    /\ UNCHANGED <<pidVars, procVars, threadVars, joinVars, spc, sproc, ssig, dpc, dthread, dres,
                   snapVars, waitVars, lockVars, termVars>>

\* signal_process, wait counter was positive: the read lock of children is
\* taken, to be held over the loop on the pids of the list.
SignalProcessReadChildren(c) ==
    /\ stodo[c] # << >>
    /\ Head(stodo[c]).op = "children"
    /\ LET p == Head(stodo[c]).pid
           list == children[p]
       IN SignalProcessGoesOn(c, [i \in DOMAIN list |-> Todo("lookup", list[i], -1)]
                                 \o <<Todo("end_children", p, -1)>> \o Tail(stodo[c]))
    /\ UNCHANGED <<pidVars, procVars, threadVars, joinVars, dpc, dthread, dres, snapVars, waitVars, lockVars, termVars>>

\* The loop on the children: compute.get_process(pid), under the read lock
\* of the process map; signal_process on the process follows when it is Some.
SignalProcessLookup(c) ==
    /\ stodo[c] # << >>
    /\ Head(stodo[c]).op = "lookup"
    /\ LET pid == Head(stodo[c]).pid
       IN SignalProcessGoesOn(c, (IF get_process(pid) # NoProcess
                                  THEN <<Todo("load", pid, -1)>> ELSE << >>)
                                 \o Tail(stodo[c]))
    /\ UNCHANGED <<pidVars, procVars, threadVars, joinVars, dpc, dthread, dres, snapVars, waitVars, lockVars, termVars>>

\* signal_process, wait counter was 0: the read lock of inner is taken, to be
\* held over the loop on the threads, in the order the table yields them.
SignalProcessReadInner(c) ==
    /\ stodo[c] # << >>
    /\ Head(stodo[c]).op = "threads"
    /\ LET p == Head(stodo[c]).pid
       IN \E o \in Orders(DOMAIN inner[p].threads) :
             SignalProcessGoesOn(c, [i \in DOMAIN o |-> Todo("signal", p, o[i])]
                                    \o <<Todo("end_inner", p, -1)>> \o Tail(stodo[c]))
    /\ UNCHANGED <<pidVars, procVars, threadVars, joinVars, dpc, dthread, dres, snapVars, waitVars, lockVars, termVars>>

\* The loop on the threads: thread.signal(signal), under the signals mutex
\* of the thread.
SignalProcessSignal(c) ==
    /\ stodo[c] # << >>
    /\ Head(stodo[c]).op = "signal"
    /\ LET ks == {<<Head(stodo[c]).pid, Head(stodo[c]).tid>>}
       IN /\ signals' = SignalAll(signals, ks, ssig[c])
          /\ sig_since' = NoteSignalled(sig_since, ks, ssig[c])
    /\ SignalProcessGoesOn(c, Tail(stodo[c]))
    /\ UNCHANGED <<pidVars, procVars, ctrls, id_refs, dropping, joinVars, dpc, dthread, dres, snapVars, waitVars, lockVars, termVars>>

\* A step of host thread c inside signal_process.
SignalProcessRun(c) ==
    \/ SignalProcessNestedLoad(c)
    \/ SignalProcessReadChildren(c)
    \/ SignalProcessLookup(c)
    \/ SignalProcessReadInner(c)
    \/ SignalProcessSignal(c)

\* WasiThread::pop_signals_or_subscribe on thread k, under the signals mutex:
\* the pending list is swapped out; Ok(list) when it is not empty, else
\* Err(subscription).
pop_signals_or_subscribe(d, k) ==
    /\ dpc[d] = "idle"
    /\ LET ret == signals[k].list
       IN IF ret = << >>
          THEN /\ signals' = [signals EXCEPT ![k].chan = Subscribe(@, d)]
               /\ dpc' = [dpc EXCEPT ![d] = "subscribed"]
               /\ dthread' = [dthread EXCEPT ![d] = k]
               /\ dres' = [dres EXCEPT ![d] = [ok |-> FALSE, sigs |-> << >>]]
          ELSE /\ signals' = [signals EXCEPT ![k].list = << >>]
               /\ dres' = [dres EXCEPT ![d] = [ok |-> TRUE, sigs |-> ret]]
               /\ UNCHANGED <<dpc, dthread>>
    /\ sig_since' = [sig_since EXCEPT ![k] = {}]
    /\ UNCHANGED <<pidVars, procVars, ctrls, id_refs, dropping, joinVars, spc, sproc, ssig, stodo, snapVars, waitVars, lockVars, termVars>>

\* The recv of the subscription a drain returned completes (a message or a
\* lag error), and the consumer drops the receiver.
DrainerWake(d) ==
    /\ dpc[d] = "subscribed"
    /\ RecvState(signals[dthread[d]].chan, d) # "pending"
    /\ signals' = [signals EXCEPT ![dthread[d]].chan = DropReceiver(@, d)]
    /\ dpc' = [dpc EXCEPT ![d] = "idle"]
    /\ dthread' = [dthread EXCEPT ![d] = NoLatch]
    /\ UNCHANGED <<pidVars, procVars, ctrls, id_refs, dropping, sig_since, joinVars,
                   spc, sproc, ssig, stodo, dres, snapVars, waitVars, lockVars, termVars>>

(***************************************************************************)
(* Stack snapshots                                                         *)
(***************************************************************************)
\* Byte values of a memory stack.
Bytes == {0, 1}
\* Snapshot hashes.
Hashes == {1, 2}

\* The memory stacks passed to add_snapshot.
MemoryStacks == UNION {[1 .. n -> Bytes] : n \in 0 .. MaxStackLen}

\* The corrected image of a memory stack in which every byte was relocated.
Relocated(mem) == [i \in DOMAIN mem |-> IF mem[i] = 0 THEN 1 ELSE 0]

\* The corrected images passed along with a memory stack: nothing relocated,
\* or every byte.
CorrectedImages(mem) == {mem, Relocated(mem)}

\* The call stack and store data passed to add_snapshot with a hash: the hash
\* is computed from them, so each hash comes with its own.
SnapshotData(hash) == [call_stack |-> <<hash>>, store_data |-> <<hash + 10>>]

\* a.iter().zip(b.iter()).any(|(a, b)| *a == *b)
AnyEqual(a, b) ==
    \E i \in DOMAIN a \cap DOMAIN b : a[i] = b[i]

\* Mutant of StackChanged: a segment is never found changed.
StackNeverChanged(seg, memory_stack) == FALSE

\* The test add_snapshot makes at a segment: the remaining incoming stack is
\* shorter than the segment's, or it has no byte equal, position by position,
\* to the segment's memory_stack nor to its memory_stack_corrected.
StackChanged(seg, memory_stack) ==
    \/ Len(seg.memory_stack) > Len(memory_stack)
    \/ /\ ~AnyEqual(seg.memory_stack, memory_stack)
       /\ ~AnyEqual(seg.memory_stack_corrected, memory_stack)

\* &memory_stack[n..]
SkipBytes(memory_stack, n) == SubSeq(memory_stack, n + 1, Len(memory_stack))

\* The loop of add_snapshot from segment i with memory_stack remaining: the
\* segments it leaves, the segment it stops at, and whether it replaced that
\* segment (dropping its successors).
RECURSIVE WalkStack(_, _, _, _)
WalkStack(segs, i, memory_stack, memory_stack_corrected) ==
    IF StackChanged(segs[i], memory_stack)
    THEN [segs |-> Append(SubSeq(segs, 1, i - 1),
                          NewSegment(memory_stack, memory_stack_corrected)),
          at |-> i, replaced |-> TRUE]
    ELSE LET rest == SkipBytes(memory_stack, Len(segs[i].memory_stack))
         IN IF rest = << >>
            THEN [segs |-> segs, at |-> i, replaced |-> FALSE]
            ELSE IF i = Len(segs)
                 THEN WalkStack(Append(segs, NewSegment(rest, << >>)), i + 1,
                                rest, memory_stack_corrected)
                 ELSE WalkStack(segs, i + 1, rest, memory_stack_corrected)

\* The remaining incoming stack is shorter than the segment's memory_stack,
\* or shares no position with an equal byte with its memory_stack nor with
\* its memory_stack_corrected.
SegmentInvalid(seg, rest) ==
    \/ Len(rest) < Len(seg.memory_stack)
    \/ ~\E i \in 1 .. Len(rest) :
           \/ i <= Len(seg.memory_stack) /\ seg.memory_stack[i] = rest[i]
           \/ i <= Len(seg.memory_stack_corrected) /\ seg.memory_stack_corrected[i] = rest[i]

\* The segment at which a call with memory stack rest (from segment i on)
\* reaches an invalid segment; 0 when it reaches none.
RECURSIVE ReachedInvalid(_, _, _)
ReachedInvalid(segs, i, rest) ==
    IF SegmentInvalid(segs[i], rest) THEN i
    ELSE LET r == SkipBytes(rest, Len(segs[i].memory_stack))
         IN IF r = << >> \/ i = Len(segs) THEN 0 ELSE ReachedInvalid(segs, i + 1, r)

\* The hashes stored in the segments of segs from index i on.
HashesFrom(segs, i) == UNION {DOMAIN segs[j].snapshots : j \in i .. Len(segs)}

\* WasiThread::add_snapshot on thread k, under the stack mutex.
add_snapshot(k, memory_stack, memory_stack_corrected, hash, payload) ==
    /\ LET w == WalkStack(stack[k], 1, memory_stack, memory_stack_corrected)
       IN /\ stack' = [stack EXCEPT ![k] =
                 [w.segs EXCEPT ![w.at].snapshots = MapInsert(@, hash, payload)]]
    /\ snap_call' = [thread |-> k, hash |-> hash,
                     invalid_at |-> ReachedInvalid(stack[k], 1, memory_stack)]
    /\ UNCHANGED <<pidVars, procVars, threadVars, joinVars, sigVars, waitVars, lockVars, termVars>>

\* The concatenation of the field f of the segments 1 .. i.
RECURSIVE ConcatField(_, _, _)
ConcatField(segs, i, f) ==
    IF i = 0 THEN << >> ELSE ConcatField(segs, i - 1, f) \o segs[i][f]

\* The loop of get_snapshot from segment i.
RECURSIVE FindSnapshot(_, _, _)
FindSnapshot(segs, i, hash) ==
    IF hash \in DOMAIN segs[i].snapshots
    THEN [found |-> TRUE,
          memory_stack |-> ConcatField(segs, i, "memory_stack_corrected"),
          call_stack |-> segs[i].snapshots[hash].call_stack,
          store_data |-> segs[i].snapshots[hash].store_data]
    ELSE IF i < Len(segs) THEN FindSnapshot(segs, i + 1, hash) ELSE NoSnapshot

\* WasiThread::get_snapshot on thread k, under the stack mutex.
get_snapshot(k, hash) == FindSnapshot(stack[k], 1, hash)

\* The WasiThread new_thread builds first in a new process: the main thread.
MainThread(p) ==
    [pid |-> p, id |-> 0, is_main |-> IsMainAtCreation(NewInner),
     finished |-> ThreadLatch(p, 0, IsMainAtCreation(NewInner))]

\* The state after WasiControlPlane::default().new_process() and one
\* new_thread on the process: pid 0 with its main thread, one handle.
OneThreadInit ==
    /\ process_seed = 1
    /\ reserved = {}
    /\ processes = (0 :> NewWasiProcess(0, 0))
    /\ rpc = [c \in Callers |-> "idle"]
    /\ rkind = [c \in Callers |-> None]
    /\ rpid = [c \in Callers |-> 0]
    /\ rret = [c \in Callers |-> NoProcess]
    /\ next_serial = 1
    /\ kept = [p \in Pids |-> 0]
    /\ created = {NewWasiProcess(0, 0)}
    /\ inner = (0 :> RegisterThread([NewInner EXCEPT !.thread_seed = 1], 0, MainThread(0)))
    /\ waiting = (0 :> 0)
    /\ children = (0 :> << >>)
    /\ finished = (ProcLatch(0) :> NewLatch)
    /\ ctrls = (<<0, 0>> :> MainThread(0))
    /\ signals = (<<0, 0>> :> NewSignals)
    /\ id_refs = (<<0, 0>> :> 1)
    /\ dropping = (<<0, 0>> :> 0)
    /\ sig_since = (<<0, 0>> :> {})
    /\ stack = (<<0, 0>> :> NewThreadStack)
    /\ snap_call = NoCall
    /\ wpc = [j \in Joiners |-> "idle"]
    /\ wkind = [j \in Joiners |-> None]
    /\ wproc = [j \in Joiners |-> NoPid]
    /\ wentry = [j \in Joiners |-> << >>]
    /\ wlist = [j \in Joiners |-> << >>]
    /\ wpoll = [j \in Joiners |-> 0]
    /\ wchild = [j \in Joiners |-> << >>]
    /\ wres = [j \in Joiners |-> NoWaitResult]
    /\ lcall = [w \in Workers |-> NoLockCall]
    /\ lprog = [w \in Workers |-> << >>]
    /\ lheld = [w \in Workers |-> << >>]
    /\ tcall = [t \in Terminators |-> NoTerminate]
    /\ jpc = [j \in Joiners |-> "idle"]
    /\ jlatch = [j \in Joiners |-> NoLatch]
    /\ jproc = [j \in Joiners |-> NoPid]
    /\ jres = [j \in Joiners |-> NoCode]
    /\ spc = [c \in Signallers |-> "idle"]
    /\ sproc = [c \in Signallers |-> NoPid]
    /\ ssig = [c \in Signallers |-> NoSignal]
    /\ stodo = [c \in Signallers |-> << >>]
    /\ dpc = [d \in Drainers |-> "idle"]
    /\ dthread = [d \in Drainers |-> NoLatch]
    /\ dres = [d \in Drainers |-> NoResult]

(***************************************************************************)
(* join_children and join_any_child                                        *)
(***************************************************************************)
\* compute.get_process(pid) is Some.
IsRegistered(pid) == get_process(pid) # NoProcess

\* The receiver of the join that task j runs on child c, numbered apart from
\* the receivers of the joiners.
ChildReceiver(j, c) == NumJoiners + (j - 1) * PidSpace + c + 1

\* Mutant of Retain: every child is removed.
RetainNone(list, pid) == << >>

\* children.retain(|a| *a != pid)
Retain(list, pid) == SelectSeq(list, LAMBDA a : a # pid)

\* A future holds the wait guard of its child between the start of the
\* child's join and its return.
HoldsGuard(fut) == fut.pc \in {"check", "recv"}

\* The drop of a future of waits that holds no guard (not polled yet, or its
\* result taken) touches nothing shared: the futures up to the next one whose
\* join is suspended are dropped with no effect.
RECURSIVE DropIdle(_)
DropIdle(futs) ==
    IF futs # << >> /\ ~HoldsGuard(Head(futs)) THEN DropIdle(Tail(futs)) ELSE futs

\* Vec::swap_remove(i) in select_all: the last future takes the place of the
\* one that is ready.
SwapRemove(futs, i) ==
    [x \in 1 .. Len(futs) - 1 |-> IF x = i THEN futs[Len(futs)] ELSE futs[x]]

\* The next operation of the drop of the futures futs of task j, which goes
\* on as pc says: the drop of the first suspended join (its receiver, then
\* its WasiProcessWait: waiting.fetch_sub on the child), or, with none left,
\* the drop of the WasiProcessWait of the call itself. A join_any_child that
\* goes round its loop keeps its guard.
DropNext(j, futs, pc) ==
    LET held == DropIdle(futs)
    IN IF held # << >>
       THEN LET c == Head(held).pid
                rest == DropIdle(Tail(held))
            IN /\ finished' = [finished EXCEPT ![ProcLatch(c)].chan =
                                   DropReceiver(@, ChildReceiver(j, c))]
               /\ waiting' = WaitGuardReleased(waiting, c)
               /\ wchild' = [wchild EXCEPT ![j] = rest]
               /\ wpc' = [wpc EXCEPT ![j] = IF pc = "looping" /\ rest = << >>
                                             THEN "entered" ELSE pc]
       ELSE /\ waiting' = WaitGuardReleased(waiting, wproc[j])
            /\ wchild' = [wchild EXCEPT ![j] = << >>]
            /\ wpc' = [wpc EXCEPT ![j] = IF pc = "returning" THEN "done" ELSE "cancelled"]
            /\ UNCHANGED finished

\* .filter_map(|a| a).next() on the results of join_all.
RECURSIVE FirstCode(_, _)
FirstCode(futs, i) ==
    IF i > Len(futs) THEN NoCode
    ELSE IF futs[i].res # NoCode THEN futs[i].res
    ELSE FirstCode(futs, i + 1)

\* Task j polls future i of its waits.
AtCursor(j, i) == wpc[j] = "waiting" /\ wpoll[j] = i /\ i \in DOMAIN wchild[j]

\* join_all and select_all poll their futures in order: after future i comes
\* the next one; after the last one the poll is over, with every result in
\* (one past the last) or with Pending (0).
NextPoll(futs, i) ==
    IF i < Len(futs) THEN i + 1
    ELSE IF \A x \in DOMAIN futs : futs[x].pc = "done" THEN Len(futs) + 1
    ELSE 0

\* WasiProcess::join_children on process p, first poll: WasiProcessWait::new.
JoinChildrenStart(j, p) ==
    /\ wpc[j] = "idle"
    /\ wpc' = [wpc EXCEPT ![j] = "entered"]
    /\ wkind' = [wkind EXCEPT ![j] = "join_children"]
    /\ wproc' = [wproc EXCEPT ![j] = p]
    /\ waiting' = [waiting EXCEPT ![p] = @ + 1]
    /\ UNCHANGED <<pidVars, inner, children, finished, threadVars, joinVars, sigVars, snapVars,
                   wentry, wlist, wpoll, wchild, wres, lockVars, termVars>>

\* WasiProcess::join_any_child on process p, first poll: WasiProcessWait::new.
JoinAnyChildStart(j, p) ==
    /\ wpc[j] = "idle"
    /\ wpc' = [wpc EXCEPT ![j] = "entered"]
    /\ wkind' = [wkind EXCEPT ![j] = "join_any_child"]
    /\ wproc' = [wproc EXCEPT ![j] = p]
    /\ waiting' = [waiting EXCEPT ![p] = @ + 1]
    /\ UNCHANGED <<pidVars, inner, children, finished, threadVars, joinVars, sigVars, snapVars,
                   wentry, wlist, wpoll, wchild, wres, lockVars, termVars>>

\* The copy of the children list under its read lock; an empty list ends the
\* call (None from join_children, Err(Errno::Child) from join_any_child) and
\* the wait guard is dropped.
WaitReadChildren(j) ==
    /\ wpc[j] = "entered"
    /\ LET p == wproc[j]
           list == children[p]
       IN /\ wentry' = [wentry EXCEPT ![j] = IF @ = << >> THEN list ELSE @]
          /\ IF list = << >>
             THEN /\ wpc' = [wpc EXCEPT ![j] = "done"]
                  /\ wres' = [wres EXCEPT ![j] = IF wkind[j] = "join_children"
                                                 THEN NoWaitResult ELSE NoChildren]
                  /\ waiting' = WaitGuardReleased(waiting, p)
                  /\ UNCHANGED <<wlist, wchild>>
             ELSE /\ wpc' = [wpc EXCEPT ![j] = "lookup"]
                  /\ wlist' = [wlist EXCEPT ![j] = list]
                  /\ wchild' = [wchild EXCEPT ![j] = << >>]
                  /\ UNCHANGED <<waiting, wres>>
    /\ UNCHANGED <<pidVars, inner, children, finished, threadVars, joinVars, sigVars, snapVars,
                   wkind, wproc, wpoll, lockVars, termVars>>

\* The loop that builds waits: compute.get_process(pid) on the next pid of
\* the copy, and a future pushed when it is Some. After the last pid the
\* futures are handed to join_all or select_all, whose first poll starts with
\* the first future; select_all panics on none.
WaitLookup(j) ==
    /\ wpc[j] = "lookup"
    /\ LET pid == Head(wlist[j])
           futs == IF IsRegistered(pid)
                   THEN Append(wchild[j], [pid |-> pid, pc |-> "start", res |-> NoCode])
                   ELSE wchild[j]
           last == Tail(wlist[j]) = << >>
           panics == futs = << >> /\ wkind[j] = "join_any_child"
       IN /\ wlist' = [wlist EXCEPT ![j] = Tail(@)]
          /\ wchild' = [wchild EXCEPT ![j] = futs]
          /\ wpc' = [wpc EXCEPT ![j] = IF ~last THEN "lookup"
                                        ELSE IF panics THEN "panic" ELSE "waiting"]
          /\ wpoll' = [wpoll EXCEPT ![j] = IF last /\ ~panics THEN 1 ELSE 0]
    /\ UNCHANGED <<pidVars, procVars, threadVars, joinVars, sigVars, snapVars,
                   wkind, wproc, wentry, wres, lockVars, termVars>>

\* select_all panicked on an empty waits: the unwinding drops the wait guard.
WaitPanic(j) ==
    /\ wpc[j] = "panic"
    /\ wpc' = [wpc EXCEPT ![j] = "panicked"]
    /\ waiting' = WaitGuardReleased(waiting, wproc[j])
    /\ UNCHANGED <<pidVars, inner, children, finished, threadVars, joinVars, sigVars, snapVars,
                   wkind, wproc, wentry, wlist, wpoll, wchild, wres, lockVars, termVars>>

\* The suspended task is woken by the receiver of one of its child joins and
\* polled again: join_all or select_all starts with its first future.
WaitPoll(j) ==
    /\ wpc[j] = "waiting"
    /\ wpoll[j] = 0
    /\ \E i \in DOMAIN wchild[j] :
          /\ wchild[j][i].pc = "recv"
          /\ RecvState(finished[ProcLatch(wchild[j][i].pid)].chan,
                       ChildReceiver(j, wchild[j][i].pid)) # "pending"
    /\ wpoll' = [wpoll EXCEPT ![j] = 1]
    /\ UNCHANGED <<pidVars, procVars, threadVars, joinVars, sigVars, snapVars,
                   wpc, wkind, wproc, wentry, wlist, wchild, wres, lockVars, termVars>>

\* Future i has its result already, or its rx.recv() is Pending: the poll
\* goes on with the next future.
WaitPending(j, i) ==
    /\ AtCursor(j, i)
    /\ \/ wchild[j][i].pc = "done"
       \/ /\ wchild[j][i].pc = "recv"
          /\ RecvState(finished[ProcLatch(wchild[j][i].pid)].chan,
                       ChildReceiver(j, wchild[j][i].pid)) = "pending"
    /\ wpoll' = [wpoll EXCEPT ![j] = NextPoll(wchild[j], i)]
    /\ UNCHANGED <<pidVars, procVars, threadVars, joinVars, sigVars, snapVars,
                   wpc, wkind, wproc, wentry, wlist, wchild, wres, lockVars, termVars>>

\* First poll of the join of child i: WasiProcessWait::new on the child.
ChildJoinStart(j, i) ==
    /\ AtCursor(j, i)
    /\ wchild[j][i].pc = "start"
    /\ waiting' = [waiting EXCEPT ![wchild[j][i].pid] = @ + 1]
    /\ wchild' = [wchild EXCEPT ![j][i].pc = "check"]
    /\ UNCHANGED <<pidVars, inner, children, finished, threadVars, joinVars, sigVars,
                   snapVars, wpc, wkind, wproc, wentry, wlist, wpoll, wres, lockVars, termVars>>

\* Top of the loop of the join of child i, under the latch mutex: with the
\* code set the join returns it and the child's wait guard is dropped, else
\* the task subscribes.
ChildJoinCheck(j, i) ==
    /\ AtCursor(j, i)
    /\ wchild[j][i].pc = "check"
    /\ LatchMutexFree(ProcLatch(wchild[j][i].pid))
    /\ LET c == wchild[j][i].pid
           l == finished[ProcLatch(c)]
       IN IF l.code # NoCode
          THEN /\ wchild' = [wchild EXCEPT ![j][i] = [pid |-> c, pc |-> "retain", res |-> l.code]]
               /\ waiting' = WaitGuardReleased(waiting, c)
               /\ UNCHANGED finished
          ELSE /\ finished' = [finished EXCEPT ![ProcLatch(c)].chan =
                                   Subscribe(@, ChildReceiver(j, c))]
               /\ wchild' = [wchild EXCEPT ![j][i].pc = "recv"]
               /\ UNCHANGED waiting
    /\ UNCHANGED <<pidVars, inner, children, threadVars, joinVars, sigVars, snapVars,
                   wpc, wkind, wproc, wentry, wlist, wpoll, wres, lockVars, termVars>>

\* rx.recv().await of the join of child i completes: Ok goes round the loop,
\* an error makes the join return None and the child's wait guard is dropped.
ChildJoinRecv(j, i) ==
    /\ AtCursor(j, i)
    /\ wchild[j][i].pc = "recv"
    /\ LET c == wchild[j][i].pid
           st == RecvState(finished[ProcLatch(c)].chan, ChildReceiver(j, c))
       IN /\ st # "pending"
          /\ finished' = [finished EXCEPT ![ProcLatch(c)].chan =
                              DropReceiver(@, ChildReceiver(j, c))]
          /\ IF st = "ok"
             THEN /\ wchild' = [wchild EXCEPT ![j][i].pc = "check"]
                  /\ UNCHANGED waiting
             ELSE /\ wchild' = [wchild EXCEPT ![j][i] =
                                    [pid |-> c, pc |-> "retain", res |-> NoCode]]
                  /\ waiting' = WaitGuardReleased(waiting, c)
    /\ UNCHANGED <<pidVars, inner, children, threadVars, joinVars, sigVars, snapVars,
                   wpc, wkind, wproc, wentry, wlist, wpoll, wres, lockVars, termVars>>

\* After the join of child i returned: the child is removed from the
\* children list under its write lock. join_all goes on with the next
\* future; select_all returns this result with the other futures, which are
\* dropped next, and join_any_child then returns the result when it is a
\* code, else goes round its loop.
ChildJoined(j, i) ==
    /\ AtCursor(j, i)
    /\ wchild[j][i].pc = "retain"
    /\ ~ChildrenReadHeld(wproc[j])
    /\ LET p == wproc[j]
           c == wchild[j][i].pid
           res == wchild[j][i].res
           futs == [wchild[j] EXCEPT ![i].pc = "done"]
           rest == DropIdle(SwapRemove(futs, i))
       IN /\ children' = [children EXCEPT ![p] = Retain(@, c)]
          /\ IF wkind[j] = "join_children"
             THEN /\ wchild' = [wchild EXCEPT ![j] = futs]
                  /\ wpoll' = [wpoll EXCEPT ![j] = NextPoll(futs, i)]
                  /\ UNCHANGED <<wpc, wres>>
             ELSE /\ wchild' = [wchild EXCEPT ![j] = rest]
                  /\ wpoll' = [wpoll EXCEPT ![j] = 0]
                  /\ IF res # NoCode
                     THEN /\ wpc' = [wpc EXCEPT ![j] = "returning"]
                          /\ wres' = [wres EXCEPT ![j] = [ok |-> TRUE, pid |-> c, code |-> res]]
                     ELSE /\ wpc' = [wpc EXCEPT ![j] = IF rest = << >> THEN "entered"
                                                       ELSE "looping"]
                          /\ UNCHANGED wres
    /\ UNCHANGED <<pidVars, inner, finished, waiting, threadVars, joinVars, sigVars, snapVars,
                   wkind, wproc, wentry, wlist, lockVars, termVars>>

\* The futures that select_all returned, or those of a future that is being
\* dropped, are dropped one after the other, and then the guard of the call
\* unless it goes round its loop.
WaitDrop(j) ==
    /\ wpc[j] \in {"returning", "looping", "cancelling"}
    /\ DropNext(j, wchild[j], wpc[j])
    /\ UNCHANGED <<pidVars, inner, children, threadVars, joinVars, sigVars, snapVars,
                   wkind, wproc, wentry, wlist, wpoll, wres, lockVars, termVars>>

\* join_all is ready: join_children returns the first code of the results.
JoinChildrenReturn(j) ==
    /\ wpc[j] = "waiting"
    /\ wkind[j] = "join_children"
    /\ wpoll[j] = Len(wchild[j]) + 1
    /\ wpc' = [wpc EXCEPT ![j] = "done"]
    /\ wres' = [wres EXCEPT ![j] = [ok |-> TRUE, pid |-> NoPid, code |-> FirstCode(wchild[j], 1)]]
    /\ waiting' = WaitGuardReleased(waiting, wproc[j])
    /\ wchild' = [wchild EXCEPT ![j] = << >>]
    /\ wpoll' = [wpoll EXCEPT ![j] = 0]
    /\ UNCHANGED <<pidVars, inner, children, finished, threadVars, joinVars, sigVars,
                   snapVars, wkind, wproc, wentry, wlist, lockVars, termVars>>

\* The future of join_children or join_any_child is dropped while suspended:
\* the first operation of the drop of its futures and of its wait guard.
WaitCancel(j) ==
    /\ wpc[j] = "waiting"
    /\ wpoll[j] = 0
    /\ DropNext(j, wchild[j], "cancelling")
    /\ UNCHANGED <<pidVars, inner, children, threadVars, joinVars, sigVars, snapVars,
                   wkind, wproc, wentry, wlist, wpoll, wres, lockVars, termVars>>

\* The future of WasiProcess::join is dropped while suspended.
JoinCancel(j) ==
    /\ jpc[j] = "recv"
    /\ jproc[j] # NoPid
    /\ jpc' = [jpc EXCEPT ![j] = "cancelled"]
    /\ finished' = [finished EXCEPT ![jlatch[j]].chan = DropReceiver(@, j)]
    /\ waiting' = WaitGuardReleased(waiting, jproc[j])
    /\ UNCHANGED <<pidVars, inner, children, threadVars, jlatch, jproc, jres, sigVars,
                   snapVars, waitVars, lockVars, termVars>>

\* The processes of the family: a parent and its two children.
Family == {0, 1, 2}

\* The state after three new_process calls, a new_thread on each process, and
\* the caller's push of the pids of processes 1 and 2 to the children list of
\* process 0.
FamilyInit ==
    /\ process_seed = 3 % PidSpace
    /\ reserved = {}
    /\ processes = [p \in Family |-> NewWasiProcess(p, p)]
    /\ rpc = [c \in Callers |-> "idle"]
    /\ rkind = [c \in Callers |-> None]
    /\ rpid = [c \in Callers |-> 0]
    /\ rret = [c \in Callers |-> NoProcess]
    /\ next_serial = 3
    /\ kept = [p \in Pids |-> 0]
    /\ created = {NewWasiProcess(p, p) : p \in Family}
    /\ inner = [p \in Family |->
                   RegisterThread([NewInner EXCEPT !.thread_seed = 1], 0, MainThread(p))]
    /\ waiting = [p \in Family |-> 0]
    /\ children = [p \in Family |-> IF p = 0 THEN <<1, 2>> ELSE << >>]
    /\ finished = [l \in {ProcLatch(p) : p \in Family} |-> NewLatch]
    /\ ctrls = [k \in {<<p, 0>> : p \in Family} |-> MainThread(k[1])]
    /\ signals = [k \in {<<p, 0>> : p \in Family} |-> NewSignals]
    /\ id_refs = [k \in {<<p, 0>> : p \in Family} |-> 1]
    /\ dropping = [k \in {<<p, 0>> : p \in Family} |-> 0]
    /\ sig_since = [k \in {<<p, 0>> : p \in Family} |-> {}]
    /\ stack = [k \in {<<p, 0>> : p \in Family} |-> NewThreadStack]
    /\ snap_call = NoCall
    /\ jpc = [j \in Joiners |-> "idle"]
    /\ jlatch = [j \in Joiners |-> NoLatch]
    /\ jproc = [j \in Joiners |-> NoPid]
    /\ jres = [j \in Joiners |-> NoCode]
    /\ spc = [c \in Signallers |-> "idle"]
    /\ sproc = [c \in Signallers |-> NoPid]
    /\ ssig = [c \in Signallers |-> NoSignal]
    /\ stodo = [c \in Signallers |-> << >>]
    /\ dpc = [d \in Drainers |-> "idle"]
    /\ dthread = [d \in Drainers |-> NoLatch]
    /\ dres = [d \in Drainers |-> NoResult]
    /\ wpc = [j \in Joiners |-> "idle"]
    /\ wkind = [j \in Joiners |-> None]
    /\ wproc = [j \in Joiners |-> NoPid]
    /\ wentry = [j \in Joiners |-> << >>]
    /\ wlist = [j \in Joiners |-> << >>]
    /\ wpoll = [j \in Joiners |-> 0]
    /\ wchild = [j \in Joiners |-> << >>]
    /\ wres = [j \in Joiners |-> NoWaitResult]
    /\ lcall = [w \in Workers |-> NoLockCall]
    /\ lprog = [w \in Workers |-> << >>]
    /\ lheld = [w \in Workers |-> << >>]
    /\ tcall = [t \in Terminators |-> NoTerminate]

\* The processes of a family whose second child was never created.
Created == {0, 1}

\* The pid that reserve_pid returned for the second child.
StalePid == 2

\* The state after two new_process calls and a reserve_pid, a new_thread on
\* each process, and the caller's push to the children list of process 0 of
\* the reserved pid, alone or after the pid of process 1.
StaleInit ==
    /\ process_seed = 3 % PidSpace
    /\ reserved = {StalePid}
    /\ processes = [p \in Created |-> NewWasiProcess(p, p)]
    /\ rpc = [c \in Callers |-> "idle"]
    /\ rkind = [c \in Callers |-> None]
    /\ rpid = [c \in Callers |-> 0]
    /\ rret = [c \in Callers |-> NoProcess]
    /\ next_serial = 2
    /\ kept = [p \in Pids |-> IF p = StalePid THEN 1 ELSE 0]
    /\ created = {NewWasiProcess(p, p) : p \in Created}
    /\ inner = [p \in Created |->
                   RegisterThread([NewInner EXCEPT !.thread_seed = 1], 0, MainThread(p))]
    /\ waiting = [p \in Created |-> 0]
    /\ children \in {[p \in Created |-> IF p = 0 THEN list ELSE << >>] :
                        list \in {<<StalePid>>, <<1, StalePid>>}}
    /\ finished = [l \in {ProcLatch(p) : p \in Created} |-> NewLatch]
    /\ ctrls = [k \in {<<p, 0>> : p \in Created} |-> MainThread(k[1])]
    /\ signals = [k \in {<<p, 0>> : p \in Created} |-> NewSignals]
    /\ id_refs = [k \in {<<p, 0>> : p \in Created} |-> 1]
    /\ dropping = [k \in {<<p, 0>> : p \in Created} |-> 0]
    /\ sig_since = [k \in {<<p, 0>> : p \in Created} |-> {}]
    /\ stack = [k \in {<<p, 0>> : p \in Created} |-> NewThreadStack]
    /\ snap_call = NoCall
    /\ jpc = [j \in Joiners |-> "idle"]
    /\ jlatch = [j \in Joiners |-> NoLatch]
    /\ jproc = [j \in Joiners |-> NoPid]
    /\ jres = [j \in Joiners |-> NoCode]
    /\ spc = [c \in Signallers |-> "idle"]
    /\ sproc = [c \in Signallers |-> NoPid]
    /\ ssig = [c \in Signallers |-> NoSignal]
    /\ stodo = [c \in Signallers |-> << >>]
    /\ dpc = [d \in Drainers |-> "idle"]
    /\ dthread = [d \in Drainers |-> NoLatch]
    /\ dres = [d \in Drainers |-> NoResult]
    /\ wpc = [j \in Joiners |-> "idle"]
    /\ wkind = [j \in Joiners |-> None]
    /\ wproc = [j \in Joiners |-> NoPid]
    /\ wentry = [j \in Joiners |-> << >>]
    /\ wlist = [j \in Joiners |-> << >>]
    /\ wpoll = [j \in Joiners |-> 0]
    /\ wchild = [j \in Joiners |-> << >>]
    /\ wres = [j \in Joiners |-> NoWaitResult]
    /\ lcall = [w \in Workers |-> NoLockCall]
    /\ lprog = [w \in Workers |-> << >>]
    /\ lheld = [w \in Workers |-> << >>]
    /\ tcall = [t \in Terminators |-> NoTerminate]

(***************************************************************************)
(* Locks: the mutexes and read-write locks the operations take             *)
(***************************************************************************)
\* The locks: reserved and processes of the control plane, inner and
\* children of a process, and finished, signals and stack of a thread (the
\* finished mutex of a main thread is the one of its process).
NoLock == [kind |-> None, pid |-> -1, tid |-> -1]
ReservedLock == [kind |-> "reserved", pid |-> -1, tid |-> -1]
ProcessesLock == [kind |-> "processes", pid |-> -1, tid |-> -1]
InnerLock(p) == [kind |-> "inner", pid |-> p, tid |-> -1]
ChildrenLock(p) == [kind |-> "children", pid |-> p, tid |-> -1]
FinishedLock(l) == [kind |-> "finished", pid |-> l[1], tid |-> l[2]]
SignalsLock(k) == [kind |-> "signals", pid |-> k[1], tid |-> k[2]]
StackLock(k) == [kind |-> "stack", pid |-> k[1], tid |-> k[2]]

\* The mutexes of a thread.
ThreadMutexes == {"finished", "signals", "stack"}

\* The steps of an operation: lock() / read() / write() on a lock, the drop
\* of its guard, and a piece of the body in between.
LockOp(lock, mode) ==
    [op |-> "lock", lock |-> lock, mode |-> mode, pid |-> -1, tid |-> -1, code |-> -1]
UnlockOp(lock) ==
    [op |-> "unlock", lock |-> lock, mode |-> None, pid |-> -1, tid |-> -1, code |-> -1]
BodyOp(name, pid, tid, code) ==
    [op |-> name, lock |-> NoLock, mode |-> None, pid |-> pid, tid |-> tid, code |-> code]

\* A body between the lock of a lock and the drop of its guard.
Locked(lock, mode, body) == <<LockOp(lock, mode)>> \o body \o <<UnlockOp(lock)>>

\* A call of operation name by a host thread, with its arguments and locals.
LockCall(name, pid, tid) ==
    [name |-> name, pid |-> pid, tid |-> tid, other |-> NoLatch, serial |-> -1, copy |-> << >>]

\* Host thread w gets the lock in the mode: nobody holds it, or it is read
\* and held by readers only.
CanLock(w, lock, mode) ==
    \A v \in Workers : \A i \in DOMAIN lheld[v] :
        lheld[v][i].lock = lock => (mode = "read" /\ lheld[v][i].mode = "read")

\* The next step of host thread w is of kind op.
AtStep(w, op) == lprog[w] # << >> /\ Head(lprog[w]).op = op

\* The call of a host thread has returned.
Returned == [NoLockCall EXCEPT !.name = "returned"]

\* Host thread w goes on with the steps prog, as call; the operation has
\* returned when no step is left.
GoOn(w, prog, call) ==
    /\ lprog' = [lprog EXCEPT ![w] = prog]
    /\ lcall' = [lcall EXCEPT ![w] = IF prog = << >> THEN Returned ELSE call]

\* Host thread w starts the operation call, whose steps are prog; each host
\* thread makes one call.
StartCall(w, call, prog) ==
    /\ lcall[w] = NoLockCall
    /\ lcall' = [lcall EXCEPT ![w] = call]
    /\ lprog' = [lprog EXCEPT ![w] = prog]
    /\ UNCHANGED lheld

\* lock(), read() or write() returns the guard to host thread w.
LockStep(w) ==
    /\ AtStep(w, "lock")
    /\ CanLock(w, Head(lprog[w]).lock, Head(lprog[w]).mode)
    /\ lheld' = [lheld EXCEPT ![w] = Append(@, [lock |-> Head(lprog[w]).lock,
                                                  mode |-> Head(lprog[w]).mode])]
    /\ GoOn(w, Tail(lprog[w]), lcall[w])
    /\ UNCHANGED <<pidVars, procVars, threadVars, joinVars, sigVars, snapVars, waitVars, termVars>>

\* The guard of a lock goes out of scope.
UnlockStep(w) ==
    /\ AtStep(w, "unlock")
    /\ lheld' = [lheld EXCEPT ![w] = SelectSeq(@, LAMBDA h : h.lock # Head(lprog[w]).lock)]
    /\ GoOn(w, Tail(lprog[w]), lcall[w])
    /\ UNCHANGED <<pidVars, procVars, threadVars, joinVars, sigVars, snapVars, waitVars, termVars>>


\* WasiControlPlane::get_process by host thread w.
LockGetProcess(w, pid) ==
    /\ StartCall(w, LockCall("get_process", pid, -1), Locked(ProcessesLock, "read", << >>))
    /\ UNCHANGED <<pidVars, procVars, threadVars, joinVars, sigVars, snapVars, waitVars, termVars>>

\* One round of the loop of reserve_pid, up to the test of the reserved set.
ReserveLoop ==
    <<BodyOp("fetch", -1, -1, -1)>>
    \o Locked(ReservedLock, "mutex", <<BodyOp("reserve_test", -1, -1, -1)>>)

\* An id is left for one more call of reserve_pid or new_process: fewer ids
\* are live or reserved, with one for each call that has yet to find its pid
\* (it has the test of the reserved set before it, or the pid it reserved
\* is in the process map), than the seed has values. The loop of
\* reserve_pid ends at an id that is neither live nor reserved.
IdLeft ==
    LET SeeksPid(v) ==
            /\ lcall[v].name \in {"reserve_pid", "new_process"}
            /\ \/ \E i \in DOMAIN lprog[v] : lprog[v][i].op = "reserve_test"
               \/ \E i \in DOMAIN lprog[v] :
                      lprog[v][i].op \in {"live_test", "unreserve"} /\ IsLive(lcall[v].pid)
    IN Cardinality(DOMAIN processes \cup reserved)
         + Cardinality({v \in Workers : SeeksPid(v)})
         < LockPidSpace

\* WasiControlPlane::reserve_pid by host thread w.
LockReservePid(w) ==
    /\ IdLeft
    /\ StartCall(w, LockCall("reserve_pid", NoPid, -1),
                 ReserveLoop \o <<BodyOp("return_pid", -1, -1, -1)>>)
    /\ UNCHANGED <<pidVars, procVars, threadVars, joinVars, sigVars, snapVars, waitVars, termVars>>

\* WasiControlPlane::new_process by host thread w: reserve_pid, then the
\* insert under the write lock of the map, then the removal of the
\* reservation.
LockNewProcess(w) ==
    /\ IdLeft
    /\ StartCall(w, LockCall("new_process", NoPid, -1),
                 ReserveLoop
                 \o Locked(ProcessesLock, "write", <<BodyOp("insert", -1, -1, -1)>>)
                 \o Locked(ReservedLock, "mutex", <<BodyOp("release", -1, -1, -1)>>))
    /\ UNCHANGED <<pidVars, procVars, threadVars, joinVars, sigVars, snapVars, waitVars, termVars>>

\* pid = process_seed.fetch_add(1), wrapping.
BodyFetch(w) ==
    /\ AtStep(w, "fetch")
    /\ process_seed' = (process_seed + 1) % LockPidSpace
    /\ GoOn(w, Tail(lprog[w]), [lcall[w] EXCEPT !.pid = process_seed])
    /\ UNCHANGED <<reserved, processes, callerVars, ghostPidVars, procVars, threadVars,
                   joinVars, sigVars, snapVars, waitVars, lheld, termVars>>

\* Under the reserved mutex: continue when the pid is reserved, else insert
\* it and go on to the test of the process map.
BodyReserveTest(w) ==
    /\ AtStep(w, "reserve_test")
    /\ LET after == Tail(Tail(lprog[w]))
       IN IF IsReserved(lcall[w].pid)
          THEN /\ GoOn(w, <<UnlockOp(ReservedLock)>> \o ReserveLoop \o after, lcall[w])
               /\ UNCHANGED reserved
          ELSE /\ reserved' = reserved \cup {lcall[w].pid}
               /\ GoOn(w, <<UnlockOp(ReservedLock)>>
                          \o Locked(ProcessesLock, "read", <<BodyOp("live_test", -1, -1, -1)>>)
                          \o after, lcall[w])
    /\ UNCHANGED <<process_seed, processes, callerVars, ghostPidVars, procVars, threadVars,
                   joinVars, sigVars, snapVars, waitVars, lheld, termVars>>

\* Under the read lock of the process map: break when the pid is not live,
\* else take it out of the reserved set and go round the loop.
BodyLiveTest(w) ==
    /\ AtStep(w, "live_test")
    /\ LET after == Tail(Tail(lprog[w]))
       IN IF ~IsLive(lcall[w].pid)
          THEN GoOn(w, Tail(lprog[w]), lcall[w])
          ELSE GoOn(w, <<UnlockOp(ProcessesLock)>>
                       \o Locked(ReservedLock, "mutex", <<BodyOp("unreserve", -1, -1, -1)>>)
                       \o ReserveLoop \o after, lcall[w])
    /\ UNCHANGED <<pidVars, procVars, threadVars, joinVars, sigVars, snapVars, waitVars, lheld, termVars>>

\* guard.remove(&pid) on the reserved set, in the loop of reserve_pid.
BodyUnreserve(w) ==
    /\ AtStep(w, "unreserve")
    /\ reserved' = reserved \ {lcall[w].pid}
    /\ GoOn(w, Tail(lprog[w]), lcall[w])
    /\ UNCHANGED <<process_seed, processes, callerVars, ghostPidVars, procVars, threadVars,
                   joinVars, sigVars, snapVars, waitVars, lheld, termVars>>

\* reserve_pid returns the pid to its caller, who keeps it.
BodyReturnPid(w) ==
    /\ AtStep(w, "return_pid")
    /\ kept' = [kept EXCEPT ![lcall[w].pid] = @ + 1]
    /\ GoOn(w, Tail(lprog[w]), lcall[w])
    /\ UNCHANGED <<planeVars, callerVars, next_serial, created, procVars, threadVars,
                   joinVars, sigVars, snapVars, waitVars, lheld, termVars>>

\* new_process: guard.insert(pid, ret.clone()) under the write lock.
BodyInsert(w) ==
    /\ AtStep(w, "insert")
    /\ LET pid == lcall[w].pid
       IN /\ processes' = MapInsert(processes, pid, NewWasiProcess(pid, next_serial))
          /\ inner' = MapInsert(inner, pid, NewInner)
          /\ waiting' = MapInsert(waiting, pid, 0)
          /\ children' = MapInsert(children, pid, << >>)
          /\ finished' = MapInsert(finished, ProcLatch(pid), NewLatch)
    /\ next_serial' = next_serial + 1
    /\ GoOn(w, Tail(lprog[w]), [lcall[w] EXCEPT !.serial = next_serial])
    /\ UNCHANGED <<process_seed, reserved, callerVars, kept, created, threadVars,
                   joinVars, sigVars, snapVars, waitVars, lheld, termVars>>

\* new_process: guard.remove(&pid) on the reserved set; ret is returned.
BodyRelease(w) ==
    /\ AtStep(w, "release")
    /\ reserved' = reserved \ {lcall[w].pid}
    /\ created' = created \cup {NewWasiProcess(lcall[w].pid, lcall[w].serial)}
    /\ GoOn(w, Tail(lprog[w]), lcall[w])
    /\ UNCHANGED <<process_seed, processes, callerVars, next_serial, kept, procVars,
                   threadVars, joinVars, sigVars, snapVars, waitVars, lheld, termVars>>


\* The steps of the sequence of step lists seqs, one list after the other.
RECURSIVE Flatten(_, _)
Flatten(seqs, i) == IF i > Len(seqs) THEN << >> ELSE seqs[i] \o Flatten(seqs, i + 1)

\* WasiThread::terminate(exit_code) on the thread of latch l.
TerminateSteps(l, exit_code) ==
    Locked(FinishedLock(l), "mutex", <<BodyOp("terminate", l[1], l[2], exit_code)>>)

\* WasiThread::signal on thread k.
SignalSteps(k) == Locked(SignalsLock(k), "mutex", <<BodyOp("signal", k[1], k[2], -1)>>)

\* WasiProcess::new_thread on process p by host thread w.
LockNewThread(w, p) ==
    /\ inner[p].thread_seed
         + Cardinality({v \in Workers : lcall[v].name = "new_thread" /\ lcall[v].pid = p})
         < MaxThreads
    /\ StartCall(w, LockCall("new_thread", p, -1),
                 Locked(InnerLock(p), "write", <<BodyOp("new_thread", p, -1, -1)>>))
    /\ UNCHANGED <<pidVars, procVars, threadVars, joinVars, sigVars, snapVars, waitVars, termVars>>

\* new_thread under the write lock of inner.
BodyNewThread(w) ==
    /\ AtStep(w, "new_thread")
    /\ LET p == Head(lprog[w]).pid
           id == inner[p].thread_seed
           is_main == IsMainAtCreation(inner[p])
           l == ThreadLatch(p, id, is_main)
           ctrl == [pid |-> p, id |-> id, is_main |-> is_main, finished |-> l]
           k == <<p, id>>
       IN /\ finished' = IF l \in DOMAIN finished THEN finished ELSE MapInsert(finished, l, NewLatch)
          /\ inner' = [inner EXCEPT ![p] =
                          RegisterThread([@ EXCEPT !.thread_seed = id + 1], id, ctrl)]
          /\ ctrls' = MapInsert(ctrls, k, ctrl)
          /\ signals' = MapInsert(signals, k, NewSignals)
          /\ id_refs' = MapInsert(id_refs, k, 1)
          /\ dropping' = MapInsert(dropping, k, 0)
          /\ sig_since' = MapInsert(sig_since, k, {})
          /\ stack' = MapInsert(stack, k, NewThreadStack)
    /\ GoOn(w, Tail(lprog[w]), lcall[w])
    /\ UNCHANGED <<pidVars, waiting, children, joinVars, sigVars, snap_call, waitVars, lheld, termVars>>

\* WasiProcess::get_thread on process p by host thread w.
LockGetThread(w, p, tid) ==
    /\ StartCall(w, LockCall("get_thread", p, tid), Locked(InnerLock(p), "read", << >>))
    /\ UNCHANGED <<pidVars, procVars, threadVars, joinVars, sigVars, snapVars, waitVars, termVars>>

\* Drop of a handle of thread k by host thread w: the unique handle takes
\* the write lock of inner, removes the thread, terminates it and lowers the
\* count; then the fields of the handle are dropped.
LockDropHandle(w, k) ==
    /\ LiveHandles(k) > 0
    /\ dropping' = [dropping EXCEPT ![k] = @ + 1]
    /\ StartCall(w, LockCall("drop", k[1], k[2]),
                 (IF IsUnique(k)
                  THEN Locked(InnerLock(k[1]), "write",
                              <<BodyOp("drop_remove", k[1], k[2], -1),
                                BodyOp("drop_count", k[1], k[2], -1)>>)
                  ELSE << >>)
                 \o <<BodyOp("drop_release", k[1], k[2], -1)>>)
    /\ UNCHANGED <<pidVars, procVars, ctrls, signals, id_refs, sig_since, joinVars, sigVars,
                   snapVars, waitVars, termVars>>

\* inner.threads.remove(id), and ctrl.terminate(0) on the thread removed.
BodyDropRemove(w) ==
    /\ AtStep(w, "drop_remove")
    /\ LET p == Head(lprog[w]).pid
           id == Head(lprog[w]).tid
       IN IF id \in DOMAIN inner[p].threads
          THEN /\ inner' = [inner EXCEPT ![p].threads = MapRemove(@, id)]
               /\ GoOn(w, TerminateSteps(inner[p].threads[id].finished, 0) \o Tail(lprog[w]),
                       lcall[w])
          ELSE /\ GoOn(w, Tail(lprog[w]), lcall[w])
               /\ UNCHANGED inner
    /\ UNCHANGED <<pidVars, waiting, children, finished, threadVars, joinVars, sigVars,
                   snapVars, waitVars, lheld, termVars>>

\* inner.thread_count -= 1
BodyDropCount(w) ==
    /\ AtStep(w, "drop_count")
    /\ inner' = [inner EXCEPT ![Head(lprog[w]).pid].thread_count = @ - 1]
    /\ GoOn(w, Tail(lprog[w]), lcall[w])
    /\ UNCHANGED <<pidVars, waiting, children, finished, threadVars, joinVars, sigVars,
                   snapVars, waitVars, lheld, termVars>>

\* drop() returned: the id of the handle loses an owner.
BodyDropRelease(w) ==
    /\ AtStep(w, "drop_release")
    /\ LET k == <<Head(lprog[w]).pid, Head(lprog[w]).tid>>
       IN /\ id_refs' = [id_refs EXCEPT ![k] = @ - 1]
          /\ dropping' = [dropping EXCEPT ![k] = @ - 1]
    /\ GoOn(w, Tail(lprog[w]), lcall[w])
    /\ UNCHANGED <<pidVars, procVars, ctrls, signals, sig_since, joinVars, sigVars,
                   snapVars, waitVars, lheld, termVars>>

\* WasiThread::terminate under the finished mutex: set the code if unset,
\* then send.
BodyTerminate(w) ==
    /\ AtStep(w, "terminate")
    /\ finished' = TerminateAll(finished, {<<Head(lprog[w]).pid, Head(lprog[w]).tid>>},
                                Head(lprog[w]).code)
    /\ GoOn(w, Tail(lprog[w]), lcall[w])
    /\ UNCHANGED <<pidVars, inner, waiting, children, threadVars, joinVars, sigVars,
                   snapVars, waitVars, lheld, termVars>>

\* WasiThread::terminate on thread k by host thread w.
LockTerminateThread(w, k, exit_code) ==
    /\ StartCall(w, LockCall("terminate", k[1], k[2]),
                 TerminateSteps(ctrls[k].finished, exit_code))
    /\ UNCHANGED <<pidVars, procVars, threadVars, joinVars, sigVars, snapVars, waitVars, termVars>>

\* WasiProcess::terminate on process p by host thread w.
LockTerminateProcess(w, p, exit_code) ==
    /\ StartCall(w, LockCall("terminate_process", p, -1),
                 Locked(InnerLock(p), "read", <<BodyOp("terminate_threads", p, -1, exit_code)>>))
    /\ UNCHANGED <<pidVars, procVars, threadVars, joinVars, sigVars, snapVars, waitVars, termVars>>

\* for thread in guard.threads.values() { thread.terminate(exit_code) }
BodyTerminateThreads(w) ==
    /\ AtStep(w, "terminate_threads")
    /\ LET p == Head(lprog[w]).pid
       IN \E o \in Orders(DOMAIN inner[p].threads) :
             GoOn(w, Flatten([i \in DOMAIN o |->
                                 TerminateSteps(inner[p].threads[o[i]].finished,
                                                Head(lprog[w]).code)], 1)
                     \o Tail(lprog[w]), lcall[w])
    /\ UNCHANGED <<pidVars, procVars, threadVars, joinVars, sigVars, snapVars, waitVars, lheld, termVars>>

\* WasiProcess::signal_thread on process p by host thread w.
LockSignalThread(w, p, tid) ==
    /\ StartCall(w, LockCall("signal_thread", p, tid),
                 Locked(InnerLock(p), "read", <<BodyOp("find_thread", p, tid, -1)>>))
    /\ UNCHANGED <<pidVars, procVars, threadVars, joinVars, sigVars, snapVars, waitVars, termVars>>

\* if let Some(thread) = inner.threads.get(tid) { thread.signal(signal) }
BodyFindThread(w) ==
    /\ AtStep(w, "find_thread")
    /\ LET p == Head(lprog[w]).pid
           tid == Head(lprog[w]).tid
       IN GoOn(w, (IF tid \in DOMAIN inner[p].threads THEN SignalSteps(<<p, tid>>) ELSE << >>)
                  \o Tail(lprog[w]), lcall[w])
    /\ UNCHANGED <<pidVars, procVars, threadVars, joinVars, sigVars, snapVars, waitVars, lheld, termVars>>

\* WasiThread::signal under the signals mutex: push if absent, then send.
BodySignal(w) ==
    /\ AtStep(w, "signal")
    /\ LET ks == {<<Head(lprog[w]).pid, Head(lprog[w]).tid>>}
       IN /\ signals' = SignalAll(signals, ks, ProcessSignal)
          /\ sig_since' = NoteSignalled(sig_since, ks, ProcessSignal)
    /\ GoOn(w, Tail(lprog[w]), lcall[w])
    /\ UNCHANGED <<pidVars, procVars, ctrls, id_refs, dropping, joinVars, sigVars,
                   snapVars, waitVars, lheld, termVars>>

\* WasiProcess::signal_process on process p by host thread w.
LockSignalProcess(w, p) ==
    /\ StartCall(w, LockCall("signal_process", p, -1), <<BodyOp("load_waiting", p, -1, -1)>>)
    /\ UNCHANGED <<pidVars, procVars, threadVars, joinVars, sigVars, snapVars, waitVars, termVars>>

\* signal_process on process p, the load of the wait counter: the children
\* under the read lock of children when it is positive, else the threads
\* under the read lock of inner.
BodyLoadWaiting(w) ==
    /\ AtStep(w, "load_waiting")
    /\ LET p == Head(lprog[w]).pid
       IN GoOn(w, (IF waiting[p] > 0
                   THEN Locked(ChildrenLock(p), "read", <<BodyOp("each_child", p, -1, -1)>>)
                   ELSE Locked(InnerLock(p), "read", <<BodyOp("signal_threads", p, -1, -1)>>))
                  \o Tail(lprog[w]), lcall[w])
    /\ UNCHANGED <<pidVars, procVars, threadVars, joinVars, sigVars, snapVars, waitVars, lheld, termVars>>

\* for pid in children.iter(): get_process(pid), and signal_process on the
\* process it returns.
BodyEachChild(w) ==
    /\ AtStep(w, "each_child")
    /\ LET list == children[Head(lprog[w]).pid]
       IN GoOn(w, Flatten([i \in DOMAIN list |->
                              Locked(ProcessesLock, "read",
                                     <<BodyOp("lookup", list[i], -1, -1)>>)], 1)
                  \o Tail(lprog[w]), lcall[w])
    /\ UNCHANGED <<pidVars, procVars, threadVars, joinVars, sigVars, snapVars, waitVars, lheld, termVars>>

\* get_process(pid) under the read lock of the map: signal_process on the
\* process follows when there is one.
BodyLookup(w) ==
    /\ AtStep(w, "lookup")
    /\ LET pid == Head(lprog[w]).pid
       IN GoOn(w, <<UnlockOp(ProcessesLock)>>
                  \o (IF IsRegistered(pid) THEN <<BodyOp("load_waiting", pid, -1, -1)>> ELSE << >>)
                  \o Tail(Tail(lprog[w])), lcall[w])
    /\ UNCHANGED <<pidVars, procVars, threadVars, joinVars, sigVars, snapVars, waitVars, lheld, termVars>>

\* for thread in inner.threads.values() { thread.signal(signal) }
BodySignalThreads(w) ==
    /\ AtStep(w, "signal_threads")
    /\ LET p == Head(lprog[w]).pid
       IN \E o \in Orders(DOMAIN inner[p].threads) :
             GoOn(w, Flatten([i \in DOMAIN o |-> SignalSteps(<<p, o[i]>>)], 1)
                     \o Tail(lprog[w]), lcall[w])
    /\ UNCHANGED <<pidVars, procVars, threadVars, joinVars, sigVars, snapVars, waitVars, lheld, termVars>>

\* Mutant of CopyStackSteps: the guard of the other thread's stack is still
\* held when the thread's own stack is locked.
CopyStackNested(k, o) ==
    Locked(StackLock(o), "mutex",
           <<BodyOp("stack_clone", o[1], o[2], -1)>>
           \o Locked(StackLock(k), "mutex", <<BodyOp("stack_swap", k[1], k[2], -1)>>))

\* copy_stack_from: the clone in a block of its own under the stack mutex
\* of the other thread, then the swap under the thread's own.
CopyStackSteps(k, o) ==
    Locked(StackLock(o), "mutex", <<BodyOp("stack_clone", o[1], o[2], -1)>>)
    \o Locked(StackLock(k), "mutex", <<BodyOp("stack_swap", k[1], k[2], -1)>>)

\* WasiThread::copy_stack_from on thread k, from thread o, by host thread w.
LockCopyStack(w, k, o) ==
    /\ StartCall(w, [LockCall("copy_stack_from", k[1], k[2]) EXCEPT !.other = o],
                 CopyStackSteps(k, o))
    /\ UNCHANGED <<pidVars, procVars, threadVars, joinVars, sigVars, snapVars, waitVars, termVars>>

\* stack_guard.clone() under the stack mutex of the other thread.
BodyStackClone(w) ==
    /\ AtStep(w, "stack_clone")
    /\ GoOn(w, Tail(lprog[w]),
            [lcall[w] EXCEPT !.copy = stack[<<Head(lprog[w]).pid, Head(lprog[w]).tid>>]])
    /\ UNCHANGED <<pidVars, procVars, threadVars, joinVars, sigVars, snapVars, waitVars, lheld, termVars>>

\* std::mem::swap with the copy under the thread's own stack mutex.
BodyStackSwap(w) ==
    /\ AtStep(w, "stack_swap")
    /\ stack' = [stack EXCEPT ![<<Head(lprog[w]).pid, Head(lprog[w]).tid>>] = lcall[w].copy]
    /\ GoOn(w, Tail(lprog[w]), lcall[w])
    /\ UNCHANGED <<pidVars, procVars, threadVars, joinVars, sigVars, snap_call, waitVars, lheld, termVars>>

\* The state after two new_process calls, a reserve_pid whose caller keeps
\* pid 2, a new_thread on each process, and the caller's push of the pid of
\* process 1 to the children list of process 0; no host thread is in a
\* call. The seed is the one these calls left, or has wrapped to 0 since
\* (the ids in between were given back by the owner of the plane).
LockInit ==
    /\ process_seed \in {0, 3}
    /\ reserved = {2}
    /\ processes = [p \in Created |-> NewWasiProcess(p, p)]
    /\ rpc = [c \in Callers |-> "idle"]
    /\ rkind = [c \in Callers |-> None]
    /\ rpid = [c \in Callers |-> 0]
    /\ rret = [c \in Callers |-> NoProcess]
    /\ next_serial = 2
    /\ kept = [p \in LockPids |-> IF p = 2 THEN 1 ELSE 0]
    /\ created = {NewWasiProcess(p, p) : p \in Created}
    /\ inner = [p \in Created |->
                   RegisterThread([NewInner EXCEPT !.thread_seed = 1], 0, MainThread(p))]
    /\ waiting = [p \in Created |-> 0]
    /\ children = [p \in Created |-> IF p = 0 THEN <<1>> ELSE << >>]
    /\ finished = [l \in {ProcLatch(p) : p \in Created} |-> NewLatch]
    /\ ctrls = [k \in {<<p, 0>> : p \in Created} |-> MainThread(k[1])]
    /\ signals = [k \in {<<p, 0>> : p \in Created} |-> NewSignals]
    /\ id_refs = [k \in {<<p, 0>> : p \in Created} |-> 1]
    /\ dropping = [k \in {<<p, 0>> : p \in Created} |-> 0]
    /\ sig_since = [k \in {<<p, 0>> : p \in Created} |-> {}]
    /\ stack = [k \in {<<p, 0>> : p \in Created} |-> NewThreadStack]
    /\ snap_call = NoCall
    /\ jpc = [j \in Joiners |-> "idle"]
    /\ jlatch = [j \in Joiners |-> NoLatch]
    /\ jproc = [j \in Joiners |-> NoPid]
    /\ jres = [j \in Joiners |-> NoCode]
    /\ spc = [c \in Signallers |-> "idle"]
    /\ sproc = [c \in Signallers |-> NoPid]
    /\ ssig = [c \in Signallers |-> NoSignal]
    /\ stodo = [c \in Signallers |-> << >>]
    /\ dpc = [d \in Drainers |-> "idle"]
    /\ dthread = [d \in Drainers |-> NoLatch]
    /\ dres = [d \in Drainers |-> NoResult]
    /\ wpc = [j \in Joiners |-> "idle"]
    /\ wkind = [j \in Joiners |-> None]
    /\ wproc = [j \in Joiners |-> NoPid]
    /\ wentry = [j \in Joiners |-> << >>]
    /\ wlist = [j \in Joiners |-> << >>]
    /\ wpoll = [j \in Joiners |-> 0]
    /\ wchild = [j \in Joiners |-> << >>]
    /\ wres = [j \in Joiners |-> NoWaitResult]
    /\ lcall = [w \in Workers |-> NoLockCall]
    /\ lprog = [w \in Workers |-> << >>]
    /\ lheld = [w \in Workers |-> << >>]
    /\ tcall = [t \in Terminators |-> NoTerminate]

\* Threads, handles and termination of one process, while a host thread
\* signals the process.
ThreadNext ==
    \/ \E p \in DOMAIN inner : new_thread(p)
    \/ \E k \in DOMAIN ctrls : CloneHandle(k)
    \/ \E k \in DOMAIN ctrls : DropCheck(k)
    \/ \E k \in DOMAIN ctrls : DropRelease(k)
    \/ \E k \in DOMAIN ctrls, c \in ExitCodes : thread_terminate(k, c)
    \/ \E t \in Terminators, p \in DOMAIN inner, c \in ExitCodes : process_terminate(t, p, c)
    \/ \E t \in Terminators : ProcessTerminateNext(t)
    \/ \E p \in DOMAIN inner : SignalProcessLoad(1, p, ProcessSignal)
    \/ SignalProcessReadInner(1)
    \/ SignalProcessSignal(1)

SpecThread == OneProcessInit /\ [][ThreadNext]_vars

\* Joiners of the threads and of the process, with termination and handle drops.
JoinNext ==
    \/ \E p \in DOMAIN inner : new_thread(p)
    \/ \E k \in DOMAIN ctrls : DropCheck(k)
    \/ \E k \in DOMAIN ctrls, c \in ExitCodes : thread_terminate(k, c)
    \/ \E t \in Terminators, p \in DOMAIN inner, c \in ExitCodes : process_terminate(t, p, c)
    \/ \E t \in Terminators : ProcessTerminateNext(t)
    \/ \E j \in Joiners, k \in DOMAIN ctrls : ThreadJoinStart(j, k)
    \/ \E j \in Joiners, p \in DOMAIN inner : ProcessJoinStart(j, p)
    \/ \E j \in Joiners : JoinCheck(j)
    \/ \E j \in Joiners : JoinRecv(j)

SpecJoin == OneProcessInit /\ [][JoinNext]_vars

\* Signals of a process with one thread: senders of any signal, concurrent
\* signal_process callers of one signal and consumers draining, while the
\* thread's handle is dropped and one task joins the process.
SignalNext ==
    \/ \E k \in DOMAIN ctrls : DropCheck(k)
    \/ \E p \in DOMAIN inner : ProcessJoinStart(1, p)
    \/ JoinCheck(1)
    \/ JoinRecv(1)
    \/ \E k \in DOMAIN signals, s \in Signals : thread_signal(k, s)
    \/ \E p \in DOMAIN inner : \E tid \in 0 .. inner[p].thread_seed, s \in Signals :
          signal_thread(p, tid, s)
    \/ \E c \in Signallers, p \in DOMAIN inner : SignalProcessLoad(c, p, ProcessSignal)
    \/ \E c \in Signallers : SignalProcessReadChildren(c)
    \/ \E c \in Signallers : SignalProcessReadInner(c)
    \/ \E c \in Signallers : SignalProcessSignal(c)
    \/ \E d \in Drainers, k \in DOMAIN signals : pop_signals_or_subscribe(d, k)
    \/ \E d \in Drainers : DrainerWake(d)

\* A host thread inside signal_process runs on, and the runtime polls a
\* consumer whose receiver is ready.
SignalFairness ==
    /\ \A c \in Signallers : WF_vars(SignalProcessRun(c))
    /\ \A d \in Drainers : WF_vars(DrainerWake(d))

SpecSignal == OneThreadInit /\ [][SignalNext]_vars /\ SignalFairness

\* Snapshots of the stack of one thread.
SnapshotNext ==
    \E k \in DOMAIN stack, m \in MemoryStacks, h \in Hashes :
        \E mc \in CorrectedImages(m) : add_snapshot(k, m, mc, h, SnapshotData(h))

SpecSnapshot == OneThreadInit /\ [][SnapshotNext]_vars

\* A parent and its two children: a task joins the parent, another waits for
\* its children (join_children or join_any_child), either may be dropped
\* while suspended, threads exit with code 7 and handles are dropped.
ChildrenNext ==
    \/ \E k \in DOMAIN ctrls : thread_terminate(k, 7)
    \/ \E k \in DOMAIN ctrls : DropCheck(k)
    \/ ProcessJoinStart(1, 0)
    \/ JoinCheck(1)
    \/ JoinRecv(1)
    \/ JoinCancel(1)
    \/ JoinChildrenStart(1, 0)
    \/ JoinAnyChildStart(1, 0)
    \/ WaitReadChildren(1)
    \/ WaitLookup(1)
    \/ WaitPoll(1)
    \/ \E i \in 1 .. Cardinality(Family) : WaitPending(1, i)
    \/ \E i \in 1 .. Cardinality(Family) : ChildJoinStart(1, i)
    \/ \E i \in 1 .. Cardinality(Family) : ChildJoinCheck(1, i)
    \/ \E i \in 1 .. Cardinality(Family) : ChildJoinRecv(1, i)
    \/ \E i \in 1 .. Cardinality(Family) : ChildJoined(1, i)
    \/ JoinChildrenReturn(1)
    \/ WaitCancel(1)
    \/ WaitDrop(1)

SpecChildren == FamilyInit /\ [][ChildrenNext]_vars

\* The same operations on a parent whose children list names a pid that is
\* not in the control plane, while a host thread signals the parent.
StaleNext ==
    \/ ChildrenNext
    \/ WaitPanic(1)
    \/ SignalProcessLoad(1, 0, ProcessSignal)
    \/ SignalProcessRun(1)

SpecStale == StaleInit /\ [][StaleNext]_vars

\* A parent and its two children, all running: tasks start waiting on a
\* process or on the children of the parent and may give up, while host
\* threads signal processes.
RoutingNext ==
    \/ \E p \in DOMAIN inner : ProcessJoinStart(1, p)
    \/ JoinCheck(1)
    \/ JoinCancel(1)
    \/ JoinChildrenStart(1, 0)
    \/ WaitReadChildren(1)
    \/ WaitLookup(1)
    \/ \E i \in 1 .. Cardinality(Family) : WaitPending(1, i)
    \/ \E i \in 1 .. Cardinality(Family) : ChildJoinStart(1, i)
    \/ \E i \in 1 .. Cardinality(Family) : ChildJoinCheck(1, i)
    \/ WaitCancel(1)
    \/ WaitDrop(1)
    \/ \E c \in Signallers, p \in DOMAIN inner : SignalProcessLoad(c, p, ProcessSignal)
    \/ \E c \in Signallers : SignalProcessRun(c)

SpecRouting == FamilyInit /\ [][RoutingNext]_vars

\* A step of the call host thread w is in: a lock, the drop of a guard, or a
\* piece of the body.
LockRun(w) ==
    \/ LockStep(w)
    \/ UnlockStep(w)
    \/ BodyFetch(w)
    \/ BodyReserveTest(w)
    \/ BodyLiveTest(w)
    \/ BodyUnreserve(w)
    \/ BodyReturnPid(w)
    \/ BodyInsert(w)
    \/ BodyRelease(w)
    \/ BodyNewThread(w)
    \/ BodyDropRemove(w)
    \/ BodyDropCount(w)
    \/ BodyDropRelease(w)
    \/ BodyTerminateThreads(w)
    \/ BodyTerminate(w)
    \/ BodyFindThread(w)
    \/ BodySignal(w)
    \/ BodyLoadWaiting(w)
    \/ BodyEachChild(w)
    \/ BodyLookup(w)
    \/ BodySignalThreads(w)
    \/ BodyStackClone(w)
    \/ BodyStackSwap(w)

\* Host thread w calls an operation of the control plane, of a process or of
\* a thread.
LockBegin(w) ==
    \/ LockReservePid(w)
    \/ LockNewProcess(w)
    \/ \E pid \in LockPids : LockGetProcess(w, pid)
    \/ \E p \in DOMAIN inner : LockNewThread(w, p)
    \/ \E p \in DOMAIN inner : \E tid \in 0 .. (MaxThreads - 1) : LockGetThread(w, p, tid)
    \/ \E k \in DOMAIN ctrls : LockDropHandle(w, k)
    \/ \E k \in DOMAIN ctrls : LockTerminateThread(w, k, 7)
    \/ \E p \in DOMAIN inner : LockTerminateProcess(w, p, 7)
    \/ \E p \in DOMAIN inner : \E tid \in 0 .. (MaxThreads - 1) : LockSignalThread(w, p, tid)
    \/ \E p \in DOMAIN inner : LockSignalProcess(w, p)
    \/ \E k \in DOMAIN ctrls : \E o \in DOMAIN ctrls : LockCopyStack(w, k, o)

\* The operations of the control plane, of a process and of a thread, each
\* lock and each drop of a guard a step of its own, by concurrent host
\* threads; a task is suspended in join on process 0, or not.
LockNext ==
    \/ ProcessJoinStart(1, 0)
    \/ JoinCheck(1)
    \/ JoinCancel(1)
    \/ \E w \in Workers : LockBegin(w) \/ LockRun(w)

\* A host thread that can take the next step of its call takes it in the end.
SpecLocks ==
    LockInit /\ [][LockNext]_vars /\ \A w \in Workers : WF_vars(LockRun(w))

(***************************************************************************)
(* Properties of join (checked under SpecJoin)                             *)
(***************************************************************************)
\* C3: a joiner of a thread returns the code stored in the thread's exit
\* latch (the code of the first terminate), in every interleaving with
\* terminate calls; it never returns none while the latch's channel exists.
C3_JoinReturnsExitCode ==
    \A j \in Joiners :
        (jpc[j] = "done" /\ jproc[j] = NoPid) =>
            /\ jres[j] # NoCode
            /\ jres[j] = finished[jlatch[j]].code

\* The first thread created in process p.
FirstThread(p) == <<p, 0>>

\* C4: the process exit latch is the exit latch of the first (main) thread:
\* terminate(c) on that thread, not yet exited, makes try_join of the process
\* Some(c), a join of the process entered once the latch is set returns that
\* code, and terminating or dropping a thread not flagged main leaves the
\* process latch alone.
C4_ProcessLatchIsMainLatch ==
    /\ [](\A p \in DOMAIN inner :
            FirstThread(p) \in DOMAIN ctrls =>
                /\ ctrls[FirstThread(p)].is_main
                /\ thread_try_join(FirstThread(p)) = process_try_join(p))
    /\ [][\A p \in DOMAIN inner :
            /\ \A c \in ExitCodes :
                 ( /\ FirstThread(p) \in DOMAIN ctrls
                   /\ thread_try_join(FirstThread(p)) = NoCode
                   /\ thread_terminate(FirstThread(p), c) )
                 => finished'[ProcLatch(p)].code = c
            /\ \A j \in Joiners :
                 ( /\ jproc[j] = p
                   /\ jpc[j] = "check"
                   /\ jpc'[j] # "check"
                   /\ process_try_join(p) # NoCode )
                 => (jpc'[j] = "done" /\ jres'[j] = process_try_join(p))
            /\ \A k \in DOMAIN ctrls :
                 ( /\ k[1] = p
                   /\ ~ctrls[k].is_main
                   /\ \/ \E c \in ExitCodes : thread_terminate(k, c)
                      \/ DropCheck(k) )
                 => finished'[ProcLatch(p)] = finished[ProcLatch(p)]
       ]_vars

\* C4 witness: a join of the process returned 7, the code the main thread was
\* terminated with, while a thread not flagged main had exited with 0.
C4_Witness ==
    /\ \E j \in Joiners : jpc[j] = "done" /\ jproc[j] = 0 /\ jres[j] = 7
    /\ thread_try_join(FirstThread(0)) = 7
    /\ \E k \in DOMAIN ctrls : ~ctrls[k].is_main /\ thread_try_join(k) = 0

(***************************************************************************)
(* Properties of threads and handles (checked under SpecThread)            *)
(***************************************************************************)
\* C5: the drop of a handle with no other clone outstanding removes the
\* thread from the table, lowers thread_count by one and sets the exit latch
\* to 0 if it was unset (leaving a set latch as it is); a drop while another
\* clone is outstanding changes neither the table, the count nor any latch.
C5_LastHandleDrop ==
    [][\A k \in DOMAIN ctrls :
        LET p == k[1]
            id == k[2]
            l == ctrls[k].finished
        IN /\ (id_refs[k] = 1 /\ dropping[k] = 0 /\ id_refs'[k] = 0) =>
                /\ id \notin DOMAIN inner'[p].threads
                /\ inner'[p].thread_count = inner[p].thread_count - 1
                /\ finished'[l].code =
                       IF finished[l].code = NoCode THEN 0 ELSE finished[l].code
           /\ (id_refs[k] > 1 /\ (id_refs'[k] < id_refs[k] \/ dropping'[k] > dropping[k])) =>
                /\ inner' = inner
                /\ finished' = finished
      ]_vars

\* C5 witness: one thread's only handle was dropped while it had not exited
\* (unregistered, latch 0); another thread still has two clones of its handle.
C5_Witness ==
    /\ \E k \in DOMAIN ctrls :
          /\ id_refs[k] = 0
          /\ k[2] \notin DOMAIN inner[k[1]].threads
          /\ thread_try_join(k) = 0
    /\ \E k \in DOMAIN ctrls : id_refs[k] = 2

\* C6: thread_count equals the number of entries of the thread table, and
\* active_threads returns it, after any new_thread, clone and drop.
C6_ThreadCountMatchesTable ==
    \A p \in DOMAIN inner :
        /\ inner[p].thread_count = Cardinality(DOMAIN inner[p].threads)
        /\ active_threads(p) = Cardinality(DOMAIN inner[p].threads)

\* C6 witness: two threads were created and the only handle of one was
\* dropped: one entry, count 1.
C6_Witness ==
    /\ active_threads(0) = 1
    /\ inner[0].thread_seed = 2
    /\ \E k \in DOMAIN ctrls : id_refs[k] = 0

\* C7: at most one of the threads ever created in a process is flagged
\* is_main.
C7_SingleMainThread ==
    \A p \in DOMAIN inner :
        Cardinality({k \in DOMAIN ctrls : k[1] = p /\ ctrls[k].is_main}) <= 1

\* Host thread t takes a step of terminate(c) on process p.
ProcessTerminateStep(t, p, c) ==
    \/ process_terminate(t, p, c)
    \/ tcall[t].pid = p /\ tcall[t].code = c /\ ProcessTerminateNext(t)

\* C8: exit latches are write-once: no step changes the code of a set latch;
\* a step of terminate(c) on a process writes c, to an unset latch of a thread
\* registered in the process, and when the call returns every registered
\* thread's latch is set (to c where terminate found it unset, to its earlier
\* code otherwise).
C8_WriteOnceLatches ==
    [][/\ \A l \in DOMAIN finished :
            finished[l].code # NoCode => finished'[l].code = finished[l].code
       /\ \A t \in Terminators, p \in DOMAIN inner, c \in ExitCodes :
            ProcessTerminateStep(t, p, c) =>
                /\ \A l \in DOMAIN finished :
                      finished'[l].code # finished[l].code =>
                          l \in RegisteredLatches(p) /\ finished'[l].code = c
                /\ tcall'[t] = NoTerminate =>
                      \A l \in RegisteredLatches(p) : finished'[l].code # NoCode
      ]_vars

\* C8 witness: terminate(0) on the process goes over its two registered
\* threads: it found the first one terminated with 7 and left that code, the
\* second one unset and wrote 0, and the first one is still to come in the
\* order of the table.
C8_Witness ==
    /\ DOMAIN inner[0].threads = {0, 1}
    /\ tcall[1] = [pid |-> 0, code |-> 0, left |-> {0}]
    /\ finished[inner[0].threads[0].finished].code = 7
    /\ finished[inner[0].threads[1].finished].code = 0

\* C18: when clones of one handle are dropped concurrently, in every
\* interleaving of their uniqueness checks and releases the last drop
\* unregisters the thread: a thread with no handle outstanding (every owner of
\* the id released) is not in the table of its process.
C18_ConcurrentCloneDrops ==
    \A k \in DOMAIN ctrls :
        id_refs[k] = 0 => k[2] \notin DOMAIN inner[k[1]].threads

(***************************************************************************)
(* Properties of signals (checked under SpecSignal)                        *)
(***************************************************************************)
NoDuplicates(seq) == Cardinality(Range(seq)) = Len(seq)

\* The pending list of thread k holds, once each, exactly the signals passed
\* to signal() since the last drain.
PendingIsSignalled(k) ==
    /\ NoDuplicates(signals[k].list)
    /\ Range(signals[k].list) = sig_since[k]

\* A step changes a pending list only by emptying it or by appending one
\* signal that was not pending.
PendingStep(k) ==
    signals'[k].list # signals[k].list =>
        \/ signals'[k].list = << >>
        \/ \E s \in Signals \ Range(signals[k].list) :
              signals'[k].list = Append(signals[k].list, s)

\* The next step of the signal_process call of host thread c is op.
NextOp(c, op) == stodo[c] # << >> /\ Head(stodo[c]).op = op

\* Host thread c takes the step op of its signal_process call.
SignalProcessStep(c, op) == NextOp(c, op) /\ stodo'[c] # stodo[c]

\* The steps op that the call of host thread c has ahead on process p, as
\* the set of their threads.
Ahead(todo, op, p) ==
    {todo[i].tid : i \in {x \in DOMAIN todo : todo[x].op = op /\ todo[x].pid = p}}

\* A signal_process(s) call by c that found the wait counter 0 goes over
\* every registered thread, and each of its signalling steps adds s, and
\* nothing else, to the pending set of its thread.
DeliverStep(c) ==
    /\ SignalProcessStep(c, "threads") =>
          Ahead(stodo'[c], "signal", Head(stodo[c]).pid)
              = DOMAIN inner[Head(stodo[c]).pid].threads
    /\ SignalProcessStep(c, "signal") =>
          LET k == <<Head(stodo[c]).pid, Head(stodo[c]).tid>>
          IN /\ k \in RegisteredThreads(k[1])
             /\ Range(signals'[k].list) = Range(signals[k].list) \cup {ssig[c]}

\* C9: pending signals have set semantics. A pending list never holds a signal
\* twice and holds exactly the signals sent since the last drain, so signal(s)
\* of a pending s leaves it unchanged and the drain after signal(s); signal(s)
\* returns [s]; every signal_process(s) call that found the wait counter 0 puts
\* s, once, in the pending set of each registered thread, and every
\* signal_process call, however many run concurrently, completes.
C9_PendingSignalsAreASet ==
    /\ [](\A k \in DOMAIN signals : PendingIsSignalled(k))
    /\ [][(\A k \in DOMAIN signals : PendingStep(k))
          /\ (\A c \in Signallers : DeliverStep(c))]_vars
    /\ \A c \in Signallers : (spc[c] # "idle") ~> (spc[c] = "idle")

\* Two signal_process(SIGINT) calls are in flight on the process, both past
\* the load of a zero wait counter, while SIGINT is already pending on its one
\* registered thread.
C9_Witness ==
    /\ \A c \in {1, 2} : stodo[c] = <<Todo("signal", 0, 0), Todo("end_inner", 0, -1)>>
                           /\ ssig[c] = "SIGINT" /\ sproc[c] = 0
    /\ waiting[0] = 0
    /\ RegisteredThreads(0) = {<<0, 0>>}
    /\ signals[<<0, 0>>].list = <<"SIGINT">>

\* A consumer that holds the subscription of a drain of thread k is woken
\* (its recv is ready, with a message or a lag error) whenever a signal is
\* pending on k.
SubscriptionWoken(d) ==
    dpc[d] = "subscribed" =>
        /\ d \in DOMAIN signals[dthread[d]].chan
        /\ signals[dthread[d]].list # << >> =>
               RecvState(signals[dthread[d]].chan, d) # "pending"

\* A pending list that a step empties was returned whole, as Ok, to a consumer.
DrainStep(k) ==
    (signals[k].list # << >> /\ signals'[k].list = << >>) =>
        \E d \in Drainers :
            /\ dpc[d] = "idle" /\ dpc'[d] = "idle"
            /\ dres'[d] = [ok |-> TRUE, sigs |-> signals[k].list]

\* A consumer gets a subscription only from a drain of an empty list, and the
\* subscription starts with nothing to receive.
SubscribeStep(d) ==
    (dpc[d] = "idle" /\ dpc'[d] = "subscribed") =>
        /\ signals[dthread'[d]].list = << >>
        /\ signals'[dthread'[d]].list = << >>
        /\ ~dres'[d].ok
        /\ RecvState(signals'[dthread'[d]].chan, d) = "pending"

\* A drain returns Ok exactly when the list was not empty.
PopStep(d, k) ==
    pop_signals_or_subscribe(d, k) =>
        /\ dres'[d].ok <=> signals[k].list # << >>
        /\ sig_since'[k] = {}

\* C10: draining never loses a wake-up. A drain of a non-empty pending list
\* returns all of it as Ok and leaves it empty, a drain of an empty list
\* returns a subscription; a signal sent while a consumer holds that
\* subscription makes its recv ready, the consumer is eventually woken, and
\* every signal sent since the last drain is pending for the next one.
C10_DrainNeverLosesWakeup ==
    /\ [](\A d \in Drainers : SubscriptionWoken(d))
    /\ [](\A k \in DOMAIN signals : Range(signals[k].list) = sig_since[k])
    /\ [][/\ \A k \in DOMAIN signals : DrainStep(k)
          /\ \A d \in Drainers : SubscribeStep(d)
          /\ \A d \in Drainers, k \in DOMAIN signals : PopStep(d, k)]_vars
    /\ \A d \in Drainers :
          (dpc[d] = "subscribed" /\ signals[dthread[d]].list # << >>) ~> (dpc[d] = "idle")

\* A consumer holds the subscription of a drain of the thread, a signal was
\* sent since, its recv has one message to return, and the signal is pending.
C10_Witness ==
    /\ dpc[1] = "subscribed"
    /\ dthread[1] = <<0, 0>>
    /\ RecvState(signals[<<0, 0>>].chan, 1) = "ok"
    /\ signals[<<0, 0>>].list = <<"SIGTERM">>
    /\ sig_since[<<0, 0>>] = {"SIGTERM"}

(***************************************************************************)
(* Properties of snapshots (checked under SpecSnapshot)                    *)
(***************************************************************************)
\* The hashes stored in the segments of segs before index i.
HashesBefore(segs, i) == UNION {DOMAIN segs[j].snapshots : j \in 1 .. (i - 1)}

\* An add_snapshot step on thread k with the given hash that reached an
\* invalid segment i makes every other hash of the discarded segments in the
\* set gone unretrievable and leaves the result of get_snapshot as it was for
\* every hash stored nearer the head.
InvalidationStep(k, i, hash, gone) ==
    /\ \A g \in gone \cap (HashesFrom(stack[k], i) \ {hash}) :
          ~FindSnapshot(stack'[k], 1, g).found
    /\ \A g \in HashesBefore(stack[k], i) :
          FindSnapshot(stack'[k], 1, g) = FindSnapshot(stack[k], 1, g)

\* C15 as stated: at an invalid segment, every hash stored in that segment or
\* a successor, other than the hash being added, is unretrievable afterwards,
\* and every hash stored nearer the head is retrievable with the same result.
C15_InvalidationAsStated ==
    [][snap_call'.invalid_at > 0 =>
          InvalidationStep(snap_call'.thread, snap_call'.invalid_at, snap_call'.hash,
                           Hashes)]_vars

\* C15: at an invalid segment, every hash stored in that segment or a
\* successor, other than the hash being added and those also stored nearer
\* the head, is unretrievable afterwards, and every hash stored nearer the
\* head is retrievable with the same result as before.
C15_SnapshotInvalidation ==
    [][snap_call'.invalid_at > 0 =>
          InvalidationStep(snap_call'.thread, snap_call'.invalid_at, snap_call'.hash,
              Hashes \ HashesBefore(stack[snap_call'.thread], snap_call'.invalid_at))]_vars

\* The last call, add_snapshot with hash 2, found the second segment invalid
\* and replaced it: hash 2 is stored in the head and in the new segment,
\* get_snapshot(2) answers from the head (its memory stack is the head's
\* corrected image) and hash 1 is not retrievable.
C15_Witness ==
    LET segs == stack[<<0, 0>>]
    IN /\ snap_call = [thread |-> <<0, 0>>, hash |-> 2, invalid_at |-> 2]
       /\ Len(segs) = 2
       /\ DOMAIN segs[1].snapshots = {2}
       /\ DOMAIN segs[2].snapshots = {2}
       /\ get_snapshot(<<0, 0>>, 2).memory_stack = segs[1].memory_stack_corrected
       /\ ~get_snapshot(<<0, 0>>, 1).found

\* C16: get_snapshot(h) right after add_snapshot(mem, memc, h, rw, st) returns
\* the whole memc as memory stack, rw as call stack and st as store data.
C16_SnapshotRoundTrip ==
    [][\A k \in DOMAIN stack, m \in MemoryStacks, h \in Hashes :
          \A mc \in CorrectedImages(m) :
              add_snapshot(k, m, mc, h, SnapshotData(h)) =>
                  FindSnapshot(stack'[k], 1, h) =
                      [found |-> TRUE, memory_stack |-> mc,
                       call_stack |-> SnapshotData(h).call_stack,
                       store_data |-> SnapshotData(h).store_data]]_vars

\* C17: the memory_stack fields of the segments from the head through the
\* segment in which an add_snapshot call stores its hash concatenate to the
\* memory_stack argument of that call (segments are never modified once
\* built, so this holds for a stored hash as long as it is stored).
C17_SegmentsRebuildMemoryStack ==
    [][\A k \in DOMAIN stack, m \in MemoryStacks, h \in Hashes :
          \A mc \in CorrectedImages(m) :
              add_snapshot(k, m, mc, h, SnapshotData(h)) =>
                  ConcatField(stack'[k], WalkStack(stack[k], 1, m, mc).at, "memory_stack") = m]_vars

(***************************************************************************)
(* Properties of waiting for children (checked under SpecRouting and       *)
(* SpecChildren)                                                           *)
(***************************************************************************)
\* Task j is suspended in the call kind on process p: join_all or select_all
\* returned Pending, every child join polled and parked on its receiver.
SuspendedIn(j, kind, p) ==
    /\ wpc[j] = "waiting"
    /\ wpoll[j] = 0
    /\ wkind[j] = kind
    /\ wproc[j] = p
    /\ \A i \in DOMAIN wchild[j] :
          /\ wchild[j][i].pc = "recv"
          /\ RecvState(finished[ProcLatch(wchild[j][i].pid)].chan,
                       ChildReceiver(j, wchild[j][i].pid)) = "pending"

\* The children of p the control plane knows that have a registered thread.
ChildrenWithThreads(p) ==
    {c \in Range(children[p]) : IsRegistered(c) /\ RegisteredThreads(c) # {}}

\* Host thread c enters signal_process on process p.
SignalProcessEntered(c, p) == spc[c] = "idle" /\ spc'[c] = "inside" /\ sproc'[c] = p

\* C11: while a task is suspended in P.join_children(), a P.signal_process(sig)
\* finds the wait counter of P positive and goes to the children, and for
\* every child C of P (listed, registered, with a thread) it finds the wait
\* counter of C zero and goes to the threads of C, so that sig ends up
\* pending on them and on no thread of P.
C11_ChildWaitRouting ==
    [][\A c \in Signallers :
          SuspendedIn(1, "join_children", 0) =>
              /\ SignalProcessEntered(c, 0) => stodo'[c] = <<Todo("children", 0, -1)>>
              /\ (sproc[c] = 0 /\ SignalProcessStep(c, "load")
                               /\ Head(stodo[c]).pid \in ChildrenWithThreads(0)) =>
                    /\ stodo'[c] # << >>
                    /\ Head(stodo'[c]) = Todo("threads", Head(stodo[c]).pid, -1)]_vars

\* The step adds signal s to the pending set of the threads of ks and leaves
\* the pending list of every other thread, and the processes, as they were.
SignalsExactly(ks, s) ==
    /\ \A k \in ks : s \in Range(signals'[k].list)
    /\ \A k \in DOMAIN signals \ ks : signals'[k].list = signals[k].list
    /\ UNCHANGED procVars

\* What signal_process does on process p after the load of its wait counter:
\* the threads of p when it is 0, else the children of p.
Routed(p) == IF waiting[p] = 0 THEN Todo("threads", p, -1) ELSE Todo("children", p, -1)

\* The number of steps op in todo.
CountOp(todo, op) == Cardinality({i \in DOMAIN todo : todo[i].op = op})

\* The call of host thread c has the steps of todo next.
GoesOnWith(c, todo) ==
    /\ Len(stodo'[c]) >= Len(todo)
    /\ SubSeq(stodo'[c], 1, Len(todo)) = todo

\* C19: a signal_process(sig) call, on the process it is called on and on
\* every process it is applied to, loads the wait counter; when it found 0 it
\* adds sig to the pending set of each thread registered in the process, one
\* after the other, and touches nothing else; when it found it positive it
\* signals no thread of the process and applies signal_process(sig) to each
\* pid of the children list that the control plane knows, and to no other.
C19_SignalProcessRouting ==
    [][\A c \in Signallers :
          /\ \A p \in DOMAIN inner :
                SignalProcessEntered(c, p) => stodo'[c] = <<Routed(p)>> /\ UNCHANGED signals
          /\ SignalProcessStep(c, "load") =>
                GoesOnWith(c, <<Routed(Head(stodo[c]).pid)>>) /\ UNCHANGED signals
          /\ SignalProcessStep(c, "threads") =>
                LET p == Head(stodo[c]).pid
                    n == Cardinality(DOMAIN inner[p].threads)
                IN /\ Len(stodo'[c]) >= n
                   /\ \A i \in 1 .. n : stodo'[c][i].op = "signal" /\ stodo'[c][i].pid = p
                   /\ {stodo'[c][i].tid : i \in 1 .. n} = DOMAIN inner[p].threads
                   /\ CountOp(stodo'[c], "signal") = n
                   /\ UNCHANGED signals
          /\ SignalProcessStep(c, "signal") =>
                SignalsExactly({<<Head(stodo[c]).pid, Head(stodo[c]).tid>>}, ssig[c])
          /\ SignalProcessStep(c, "children") =>
                LET list == children[Head(stodo[c]).pid]
                IN /\ GoesOnWith(c, [i \in DOMAIN list |-> Todo("lookup", list[i], -1)])
                   /\ CountOp(stodo'[c], "lookup") = CountOp(stodo[c], "lookup") + Len(list)
                   /\ UNCHANGED signals
          /\ SignalProcessStep(c, "lookup") =>
                LET pid == Head(stodo[c]).pid
                IN /\ IF IsRegistered(pid)
                      THEN GoesOnWith(c, <<Todo("load", pid, -1)>>)
                      ELSE stodo'[c] = DropGuards(Tail(stodo[c]))
                   /\ UNCHANGED signals]_vars

\* A task is in P.join() and nobody waits on the children. A signal_process
\* on P found the wait counter of P positive, went to child 1, found its
\* counter 0 and signalled its thread, and has child 2 still to look up:
\* SIGINT is pending on the thread of child 1 and not on the thread of P.
\* Another signal_process, on child 1, is about to signal its thread.
C19_Witness ==
    /\ jpc[1] = "recv" /\ jproc[1] = 0
    /\ waiting = (0 :> 1 @@ 1 :> 0 @@ 2 :> 0)
    /\ signals[<<0, 0>>].list = << >>
    /\ signals[<<1, 0>>].list = <<"SIGINT">>
    /\ signals[<<2, 0>>].list = << >>
    /\ sproc[1] = 0
    /\ stodo[1] = <<Todo("lookup", 2, -1), Todo("end_children", 0, -1)>>
    /\ sproc[2] = 1
    /\ stodo[2] = <<Todo("signal", 1, 0), Todo("end_inner", 1, -1)>>

\* Where a join_children or join_any_child call holds its wait guard: from
\* its first statement until the guard is dropped, after the futures, when it
\* returns, panics or is dropped.
WaitGuardHeld ==
    {"entered", "lookup", "panic", "waiting", "returning", "looping", "cancelling"}

\* The calls in progress on process p: the joins of p, the join_children and
\* join_any_child calls on p, and the joins of p that such a call on the
\* parent of p runs; each from its first poll until it returns or is dropped.
CallsInProgress(p) ==
    Cardinality({j \in Joiners : jproc[j] = p /\ jpc[j] \in {"check", "recv"}})
    + Cardinality({j \in Joiners : wproc[j] = p /\ wpc[j] \in WaitGuardHeld})
    + Cardinality({j \in Joiners :
                      \E i \in DOMAIN wchild[j] : wchild[j][i].pid = p /\ HoldsGuard(wchild[j][i])})

\* C20: the wait counter of every process is the number of join,
\* join_children and join_any_child calls in progress on it, so it never
\* goes below 0 and is 0 when no such call is in progress.
C20_WaitCounterCountsCalls ==
    \A p \in DOMAIN waiting : waiting[p] >= 0 /\ waiting[p] = CallsInProgress(p)

\* A join_any_child on P was dropped while suspended, after it had started the
\* joins of both children, and a join of P is still suspended: the counter
\* of P is 1 and those of the children are back to 0.
C20_Witness ==
    /\ wpc[1] = "cancelled" /\ wkind[1] = "join_any_child" /\ wentry[1] = <<1, 2>>
    /\ jpc[1] = "recv" /\ jproc[1] = 0
    /\ waiting = (0 :> 1 @@ 1 :> 0 @@ 2 :> 0)
    /\ \A c \in {1, 2} : finished[ProcLatch(c)].chan = NewChannel

\* The exit code of process p, none while it has not completed.
ExitCodeOf(p) == finished[ProcLatch(p)].code

\* The first exit code that is not none among the processes of list.
FirstExitCode(list) ==
    LET set == {i \in DOMAIN list : ExitCodeOf(list[i]) # NoCode}
    IN IF set = {} THEN NoCode
       ELSE ExitCodeOf(list[CHOOSE i \in set : \A x \in set : i <= x])

\* C13: when join_children has returned, every child of the children list at
\* entry has completed and is no longer in the children list, and the result
\* is the first exit code among them that is not none (none when the list
\* was empty at entry).
C13_JoinChildrenWaitsForAll ==
    \A j \in Joiners :
        (wpc[j] = "done" /\ wkind[j] = "join_children") =>
            /\ \A c \in Range(wentry[j]) : ExitCodeOf(c) # NoCode
            /\ Range(wentry[j]) \cap Range(children[wproc[j]]) = {}
            /\ wres[j] = [ok |-> TRUE, pid |-> NoPid, code |-> FirstExitCode(wentry[j])]

\* C12: when join_any_child has returned, the result is the NoChildren error
\* if the children list was empty at entry; else it is Ok(Some((pid, code)))
\* with pid of the list at entry, code the exit code of that child, pid no
\* longer in the children list and every child of the list at entry that has
\* not completed still in it.
C12_JoinAnyChildResult ==
    \A j \in Joiners :
        (wpc[j] = "done" /\ wkind[j] = "join_any_child") =>
            IF wentry[j] = << >> THEN wres[j] = NoChildren
            ELSE /\ wres[j].ok
                 /\ wres[j].pid \in Range(wentry[j])
                 /\ wres[j].code # NoCode
                 /\ wres[j].code = ExitCodeOf(wres[j].pid)
                 /\ wres[j].pid \notin Range(children[wproc[j]])
                 /\ \A c \in Range(wentry[j]) :
                       ExitCodeOf(c) = NoCode => c \in Range(children[wproc[j]])

\* The step is taken by a join, join_children or join_any_child call: it
\* starts, goes on, returns or is dropped.
WaitStep ==
    jpc' # jpc \/ wpc' # wpc \/ wchild' # wchild \/ wlist' # wlist \/ wpoll' # wpoll

\* The thread table, the thread count and the exit code of the latch of
\* every process are left as they are.
ThreadsAndLatchKept ==
    /\ inner' = inner
    /\ \A l \in DOMAIN finished : finished'[l].code = finished[l].code

\* The children list of process p loses one child, which has completed.
CompletedChildRemoved(p) ==
    \E c \in Range(children[p]) :
        /\ ExitCodeOf(c) # NoCode
        /\ children' = [children EXCEPT ![p] = SelectSeq(@, LAMBDA a : a # c)]

\* No join, join_children or join_any_child call is in progress.
NoCallInProgress ==
    \A j \in Joiners : /\ jpc[j] \notin {"check", "recv"}
                       /\ wpc[j] \notin WaitGuardHeld

\* C14 as stated: a step of join, join_children or join_any_child leaves the
\* thread table, the thread count, the exit latch and the children list of
\* every process as they are.
C14_FrameAsStated == [][WaitStep => ThreadsAndLatchKept /\ children' = children]_vars

\* C14: a step of join, join_children or join_any_child leaves the thread
\* table, the thread count and the exit code of every process as they are,
\* and changes a children list only by removing from the list of the
\* waiting process a child that has completed; once the calls have returned
\* or been dropped no receiver of theirs is left on a latch.
C14_WaitFrame ==
    /\ [][WaitStep => /\ ThreadsAndLatchKept
                      /\ children' = children \/ CompletedChildRemoved(wproc'[1])]_vars
    /\ [](NoCallInProgress => \A l \in DOMAIN finished : finished[l].chan = NewChannel)

\* A join_children on P was dropped while suspended, after child 1 had
\* completed and been removed from the children list; child 2 has not
\* completed and is still listed, and the latches have no receiver.
C14_Witness ==
    /\ wpc[1] = "cancelled" /\ wkind[1] = "join_children" /\ wentry[1] = <<1, 2>>
    /\ children[0] = <<2>>
    /\ ExitCodeOf(1) = 7 /\ ExitCodeOf(2) = NoCode
    /\ jpc[1] = "cancelled"
    /\ waiting = (0 :> 0 @@ 1 :> 0 @@ 2 :> 0)
    /\ \A l \in DOMAIN finished : finished[l].chan = NewChannel

(***************************************************************************)
(* Properties of new threads (checked under SpecThread)                    *)
(***************************************************************************)
\* The step is a terminate on thread k or on its process, or the drop of the
\* last handle of k.
TerminatesThread(k) ==
    \/ \E c \in ExitCodes : thread_terminate(k, c)
    \/ \E t \in Terminators, c \in ExitCodes : ProcessTerminateStep(t, k[1], c)
    \/ id_refs[k] = 1 /\ id_refs'[k] = 0

\* C22: try_join on a thread that new_thread has just returned is none, and
\* try_join on a thread goes from none to a code only by a terminate on that
\* thread or on its process, or by the drop of its last handle.
C22_NewThreadLatchUnset ==
    [][/\ \A k \in DOMAIN ctrls' \ DOMAIN ctrls :
             finished'[ctrls'[k].finished].code = NoCode
       /\ \A k \in DOMAIN ctrls :
             (thread_try_join(k) = NoCode /\ finished'[ctrls[k].finished].code # NoCode)
                 => TerminatesThread(k)]_vars

(***************************************************************************)
(* Properties of stale children (checked under SpecStale)                  *)
(***************************************************************************)
\* C23: join_any_child and join_children never panic, also when the children
\* list names pids that are not in the control plane, and a call that is
\* suspended waits only for processes that are in the control plane.
C23_NoPanicOnStalePids ==
    \A j \in Joiners :
        /\ wpc[j] # "panicked"
        /\ wpc[j] = "waiting" =>
              \A i \in DOMAIN wchild[j] : IsRegistered(wchild[j][i].pid)


\* The locks host thread w holds.
HeldLocks(w) == {lheld[w][i].lock : i \in DOMAIN lheld[w]}

\* Host thread w holds the exit-latch, signal or stack mutex of a thread.
HoldsThreadMutex(w) == \E l \in HeldLocks(w) : l.kind \in ThreadMutexes

\* Host thread w is about to take a lock while it holds a thread's mutex.
LocksUnderThreadMutex(w) == HoldsThreadMutex(w) /\ AtStep(w, "lock")

\* Host thread w holds the reserved-set mutex and the process-map lock.
HoldsBothPlaneLocks(w) == ReservedLock \in HeldLocks(w) /\ ProcessesLock \in HeldLocks(w)

\* Host thread w waits for a lock that host thread v holds.
Blocks(v, w) ==
    /\ AtStep(w, "lock")
    /\ \E i \in DOMAIN lheld[v] :
          /\ lheld[v][i].lock = Head(lprog[w]).lock
          /\ ~(lheld[v][i].mode = "read" /\ Head(lprog[w]).mode = "read")

\* Each host thread of S waits for a lock a host thread of S holds.
Deadlocked(S) == S # {} /\ \A w \in S : \E v \in S : Blocks(v, w)

\* Host thread w is in a call that has not returned.
InCall(w) == lcall[w] # NoLockCall /\ lcall[w] # Returned

\* The order of the locks: a thread's mutexes are leaves, the two locks of
\* the control plane are never held together, and no host threads wait for
\* one another.
LockOrder ==
    /\ \A w \in Workers : ~LocksUnderThreadMutex(w)
    /\ \A w \in Workers :
          lcall[w].name \in {"reserve_pid", "new_process"} => ~HoldsBothPlaneLocks(w)
    /\ \A S \in SUBSET Workers : ~Deadlocked(S)

\* C21: lock acquisition is acyclic and concurrent non-suspending calls never
\* deadlock: no host thread takes a lock while it holds a thread's
\* exit-latch, signal or stack mutex, reserve_pid and new_process never hold
\* the reserved-set mutex and the process-map lock together, no set of host
\* threads wait for one another's locks, and each of the concurrent calls
\* returns.
C21_LocksAcyclicCallsComplete ==
    /\ []LockOrder
    /\ \A w \in Workers : InCall(w) ~> (lcall[w] = Returned)

\* Two host threads are in calls of the control plane at once, after the
\* seed wrapped: a new_process drew the live pid 1, reserved it, found it in
\* the process map and holds the reserved-set mutex to take it out again;
\* a reserve_pid drew pid 2, which an earlier caller keeps reserved, and
\* waits for that mutex. Both go round the loop of reserve_pid.
C21_Witness ==
    \E v, w \in Workers :
       /\ v # w
       /\ Blocks(v, w)
       /\ lcall[v].name = "new_process" /\ lcall[v].pid = 1
       /\ AtStep(v, "unreserve")
       /\ HeldLocks(v) = {ReservedLock}
       /\ lcall[w].name = "reserve_pid" /\ lcall[w].pid = 2
       /\ reserved = {1, 2}
       /\ DOMAIN processes = {0, 1}

=============================================================================
